---- MODULE Spec2Model ----
(***************************************************************************)
(* Model of the conversation-turn orchestration of the chat server:        *)
(*   - Server.StartConversation / Server.ContinueConversation (the turn    *)
(*     coordinator), Server.generateTitle (LRU cache + singleflight),      *)
(*   - Assistant.Reply (the bounded tool-calling loop).                    *)
(* Strings are sequences of one-character strings, so that trimming,      *)
(* lower-casing and truncation are computed and not assumed.               *)
(***************************************************************************)
EXTENDS Naturals, Integers, Sequences, FiniteSets, TLC

\* ------------------------------------------------------------------ bounds
\* number of concurrent RPC calls (turns) served by one Server
NumTurns == 2
\* capacity of the title LRU, scaled down from the deployment's 10_000
TitleCacheSize == 1

\* --------------------------------------------------------------- constants
TitleMaxLen == 80
MaxRounds == 15
\* durations in milliseconds
RequestTimeout == 30000
MaxTitleBudget == 15000
SafetyMargin == 500
MinTitleBudget == 500

Turns == 1..NumTurns
NoTurn == 0
Nil == "nil"
None == [none |-> TRUE]

\* ----------------------------------------------------------------- strings
\* a string is a sequence of characters. A character of ASCII or Latin-1
\* is written as itself, any other character by its code point ("U+0130"),
\* and a byte that belongs to no whole character, as a cut through a
\* character leaves it, by its value ("0xC3"); the grave accent, which a
\* TLA+ string cannot hold, is written "U+0060"
AsciiChars ==
    << " ", "!", "\"", "#", "$", "%", "&", "'", "(", ")", "*", "+", ",", "-", ".", "/",
       "0", "1", "2", "3", "4", "5", "6", "7", "8", "9", ":", ";", "<", "=", ">", "?", "@",
       "A", "B", "C", "D", "E", "F", "G", "H", "I", "J", "K", "L", "M", "N", "O", "P", "Q",
       "R", "S", "T", "U", "V", "W", "X", "Y", "Z", "[", "\\", "]", "^", "_", "U+0060", "a",
       "b", "c", "d", "e", "f", "g", "h", "i", "j", "k", "l", "m", "n", "o", "p", "q", "r",
       "s", "t", "u", "v", "w", "x", "y", "z", "{", "|", "}", "~" >>
Latin1Chars ==
    << " ", "¡", "¢", "£", "¤", "¥", "¦", "§", "¨", "©", "ª", "«", "¬", "­", "®", "¯", "°",
       "±", "²", "³", "´", "µ", "¶", "·", "¸", "¹", "º", "»", "¼", "½", "¾", "¿", "À", "Á",
       "Â", "Ã", "Ä", "Å", "Æ", "Ç", "È", "É", "Ê", "Ë", "Ì", "Í", "Î", "Ï", "Ð", "Ñ", "Ò",
       "Ó", "Ô", "Õ", "Ö", "×", "Ø", "Ù", "Ú", "Û", "Ü", "Ý", "Þ", "ß", "à", "á", "â", "ã",
       "ä", "å", "æ", "ç", "è", "é", "ê", "ë", "ì", "í", "î", "ï", "ð", "ñ", "ò", "ó", "ô",
       "õ", "ö", "÷", "ø", "ù", "ú", "û", "ü", "ý", "þ", "ÿ" >>
\* the runes of the characters that are written as themselves
LiteralRune ==
    LET pairs == {<<AsciiChars[i], 31 + i>> : i \in 1..Len(AsciiChars)}
                   \cup {<<Latin1Chars[i], 159 + i>> : i \in 1..Len(Latin1Chars)}
                   \cup {<<"\t", 9>>, <<"\n", 10>>, <<"", 11>>, <<"\f", 12>>, <<"\r", 13>>,
                         <<"", 133>>}
    IN  [c \in {p[1] : p \in pairs} |-> (CHOOSE p \in pairs : p[1] = c)[2]]
RuneLiteral ==
    [n \in {LiteralRune[c] : c \in DOMAIN LiteralRune} |->
        CHOOSE c \in DOMAIN LiteralRune : LiteralRune[c] = n]

HexDigits == << "0", "1", "2", "3", "4", "5", "6", "7", "8", "9", "A", "B", "C", "D", "E", "F" >>
RECURSIVE HexNum(_)
HexNum(h) ==
    IF h = "" THEN 0
    ELSE 16 * HexNum(SubSeq(h, 1, Len(h) - 1))
            + (CHOOSE d \in 0..15 : HexDigits[d + 1] = SubSeq(h, Len(h), Len(h)))
RECURSIVE HexStr(_, _)
HexStr(n, width) ==
    IF n = 0 /\ width <= 0 THEN ""
    ELSE HexStr(n \div 16, width - 1) \o HexDigits[(n % 16) + 1]

IsByte(c) == Len(c) = 4 /\ SubSeq(c, 1, 2) = "0x"
IsCodePoint(c) == Len(c) >= 6 /\ SubSeq(c, 1, 2) = "U+"
\* the rune of a character, and the character of a rune
Rune(c) == IF IsCodePoint(c) THEN HexNum(SubSeq(c, 3, Len(c))) ELSE LiteralRune[c]
Char(n) == IF n \in DOMAIN RuneLiteral THEN RuneLiteral[n] ELSE "U+" \o HexStr(n, 4)

\* the UTF-8 encoding of a character
Utf8(c) ==
    IF IsByte(c) THEN <<HexNum(SubSeq(c, 3, 4))>>
    ELSE LET n == Rune(c)
         IN  IF n < 128 THEN <<n>>
             ELSE IF n < 2048 THEN <<192 + (n \div 64), 128 + (n % 64)>>
             ELSE IF n < 65536
             THEN <<224 + (n \div 4096), 128 + ((n \div 64) % 64), 128 + (n % 64)>>
             ELSE <<240 + (n \div 262144), 128 + ((n \div 4096) % 64),
                    128 + ((n \div 64) % 64), 128 + (n % 64)>>
\* the characters of one byte that are written as themselves
OneByteChars == {c \in DOMAIN LiteralRune : LiteralRune[c] < 128}
\* len(s): the length of a string in bytes; a string of one-byte characters
\* has as many bytes as characters
RECURSIVE ByteLen(_)
ByteLen(s) ==
    IF \A i \in 1..Len(s) : s[i] \in OneByteChars THEN Len(s)
    ELSE IF Len(s) = 1 THEN Len(Utf8(s[1]))
    ELSE LET h == Len(s) \div 2
         IN  ByteLen(SubSeq(s, 1, h)) + ByteLen(SubSeq(s, h + 1, Len(s)))
\* s[:n]: the first n bytes, of which the last may stop inside a character
RECURSIVE BytePrefix(_, _)
BytePrefix(s, n) ==
    IF s = <<>> \/ n <= 0 THEN <<>>
    ELSE IF Len(s) = 1
    THEN IF Len(Utf8(s[1])) <= n THEN s
         ELSE [i \in 1..n |-> "0x" \o HexStr(Utf8(s[1])[i], 2)]
    ELSE LET h == Len(s) \div 2
             left == SubSeq(s, 1, h)
             used == ByteLen(left)
         IN  IF used >= n THEN BytePrefix(left, n)
             ELSE left \o BytePrefix(SubSeq(s, h + 1, Len(s)), n - used)

\* unicode.IsSpace, the white space of strings.TrimSpace and strings.Fields;
\* a byte that belongs to no character decodes to U+FFFD, which is no space
SpaceRunes == {9, 10, 11, 12, 13, 32, 133, 160, 5760} \cup (8192..8202)
                  \cup {8232, 8233, 8239, 8287, 12288}
IsSpace(c) == ~IsByte(c) /\ Rune(c) \in SpaceRunes

RECURSIVE TrimLeft(_)
TrimLeft(s) ==
    IF s = <<>> THEN s
    ELSE IF IsSpace(Head(s)) THEN TrimLeft(Tail(s)) ELSE s

RECURSIVE TrimRight(_)
TrimRight(s) ==
    IF s = <<>> THEN s
    ELSE IF IsSpace(s[Len(s)]) THEN TrimRight(SubSeq(s, 1, Len(s) - 1)) ELSE s

\* strings.TrimSpace
TrimSpace_Identity(s) == s

TrimSpace(s) == TrimRight(TrimLeft(s))

\* strings.ReplaceAll(s, "\n", " ")
ReplaceNewlines(s) == [i \in 1..Len(s) |-> IF s[i] = "\n" THEN " " ELSE s[i]]

\* unicode.CaseRanges, the ranges with a lower-case form: first rune, last
\* rune, distance to the lower-case form; UpperLower marks a range of
\* alternating upper-case and lower-case letters
UpperLower == 1114112
CaseRanges ==
    << <<65, 90, 32>>, <<192, 214, 32>>, <<216, 222, 32>>, <<256, 303, UpperLower>>,
       <<304, 304, -199>>, <<306, 311, UpperLower>>, <<313, 328, UpperLower>>,
       <<330, 375, UpperLower>>, <<376, 376, -121>>, <<377, 382, UpperLower>>,
       <<385, 385, 210>>, <<386, 389, UpperLower>>, <<390, 390, 206>>, <<391, 391, 1>>,
       <<393, 394, 205>>, <<395, 395, 1>>, <<398, 398, 79>>, <<399, 399, 202>>,
       <<400, 400, 203>>, <<401, 401, 1>>, <<403, 403, 205>>, <<404, 404, 207>>,
       <<406, 406, 211>>, <<407, 407, 209>>, <<408, 408, 1>>, <<412, 412, 211>>,
       <<413, 413, 213>>, <<415, 415, 214>>, <<416, 421, UpperLower>>, <<422, 422, 218>>,
       <<423, 423, 1>>, <<425, 425, 218>>, <<428, 428, 1>>, <<430, 430, 218>>, <<431, 431, 1>>,
       <<433, 434, 217>>, <<435, 438, UpperLower>>, <<439, 439, 219>>, <<440, 440, 1>>,
       <<444, 444, 1>>, <<452, 452, 2>>, <<453, 453, 1>>, <<455, 455, 2>>, <<456, 456, 1>>,
       <<458, 458, 2>>, <<459, 476, UpperLower>>, <<478, 495, UpperLower>>, <<497, 497, 2>>,
       <<498, 501, UpperLower>>, <<502, 502, -97>>, <<503, 503, -56>>,
       <<504, 543, UpperLower>>, <<544, 544, -130>>, <<546, 563, UpperLower>>,
       <<570, 570, 10795>>, <<571, 571, 1>>, <<573, 573, -163>>, <<574, 574, 10792>>,
       <<577, 577, 1>>, <<579, 579, -195>>, <<580, 580, 69>>, <<581, 581, 71>>,
       <<582, 591, UpperLower>>, <<880, 883, UpperLower>>, <<886, 886, 1>>, <<895, 895, 116>>,
       <<902, 902, 38>>, <<904, 906, 37>>, <<908, 908, 64>>, <<910, 911, 63>>,
       <<913, 929, 32>>, <<931, 939, 32>>, <<975, 975, 8>>, <<984, 1007, UpperLower>>,
       <<1012, 1012, -60>>, <<1015, 1015, 1>>, <<1017, 1017, -7>>, <<1018, 1018, 1>>,
       <<1021, 1023, -130>>, <<1024, 1039, 80>>, <<1040, 1071, 32>>,
       <<1120, 1153, UpperLower>>, <<1162, 1215, UpperLower>>, <<1216, 1216, 15>>,
       <<1217, 1230, UpperLower>>, <<1232, 1327, UpperLower>>, <<1329, 1366, 48>>,
       <<4256, 4293, 7264>>, <<4295, 4295, 7264>>, <<4301, 4301, 7264>>, <<5024, 5103, 38864>>,
       <<5104, 5109, 8>>, <<7312, 7354, -3008>>, <<7357, 7359, -3008>>,
       <<7680, 7829, UpperLower>>, <<7838, 7838, -7615>>, <<7840, 7935, UpperLower>>,
       <<7944, 7951, -8>>, <<7960, 7965, -8>>, <<7976, 7983, -8>>, <<7992, 7999, -8>>,
       <<8008, 8013, -8>>, <<8025, 8025, -8>>, <<8027, 8027, -8>>, <<8029, 8029, -8>>,
       <<8031, 8031, -8>>, <<8040, 8047, -8>>, <<8072, 8079, -8>>, <<8088, 8095, -8>>,
       <<8104, 8111, -8>>, <<8120, 8121, -8>>, <<8122, 8123, -74>>, <<8124, 8124, -9>>,
       <<8136, 8139, -86>>, <<8140, 8140, -9>>, <<8152, 8153, -8>>, <<8154, 8155, -100>>,
       <<8168, 8169, -8>>, <<8170, 8171, -112>>, <<8172, 8172, -7>>, <<8184, 8185, -128>>,
       <<8186, 8187, -126>>, <<8188, 8188, -9>>, <<8486, 8486, -7517>>, <<8490, 8490, -8383>>,
       <<8491, 8491, -8262>>, <<8498, 8498, 28>>, <<8544, 8559, 16>>, <<8579, 8579, 1>>,
       <<9398, 9423, 26>>, <<11264, 11311, 48>>, <<11360, 11360, 1>>, <<11362, 11362, -10743>>,
       <<11363, 11363, -3814>>, <<11364, 11364, -10727>>, <<11367, 11372, UpperLower>>,
       <<11373, 11373, -10780>>, <<11374, 11374, -10749>>, <<11375, 11375, -10783>>,
       <<11376, 11376, -10782>>, <<11378, 11378, 1>>, <<11381, 11381, 1>>,
       <<11390, 11391, -10815>>, <<11392, 11491, UpperLower>>, <<11499, 11502, UpperLower>>,
       <<11506, 11506, 1>>, <<42560, 42605, UpperLower>>, <<42624, 42651, UpperLower>>,
       <<42786, 42799, UpperLower>>, <<42802, 42863, UpperLower>>,
       <<42873, 42876, UpperLower>>, <<42877, 42877, -35332>>, <<42878, 42887, UpperLower>>,
       <<42891, 42891, 1>>, <<42893, 42893, -42280>>, <<42896, 42899, UpperLower>>,
       <<42902, 42921, UpperLower>>, <<42922, 42922, -42308>>, <<42923, 42923, -42319>>,
       <<42924, 42924, -42315>>, <<42925, 42925, -42305>>, <<42926, 42926, -42308>>,
       <<42928, 42928, -42258>>, <<42929, 42929, -42282>>, <<42930, 42930, -42261>>,
       <<42931, 42931, 928>>, <<42932, 42947, UpperLower>>, <<42948, 42948, -48>>,
       <<42949, 42949, -42307>>, <<42950, 42950, -35384>>, <<42951, 42954, UpperLower>>,
       <<42960, 42960, 1>>, <<42966, 42969, UpperLower>>, <<42997, 42997, 1>>,
       <<65313, 65338, 32>>, <<66560, 66599, 40>>, <<66736, 66771, 40>>, <<66928, 66938, 39>>,
       <<66940, 66954, 39>>, <<66956, 66962, 39>>, <<66964, 66965, 39>>, <<68736, 68786, 64>>,
       <<71840, 71871, 32>>, <<93760, 93791, 32>>, <<125184, 125217, 34>> >>

\* unicode.ToLower
UnicodeToLower(n) ==
    IF \E i \in 1..Len(CaseRanges) : CaseRanges[i][1] <= n /\ n <= CaseRanges[i][2]
    THEN LET r == CaseRanges[CHOOSE i \in 1..Len(CaseRanges) :
                                CaseRanges[i][1] <= n /\ n <= CaseRanges[i][2]]
         IN  IF r[3] = UpperLower THEN r[1] + ((n - r[1]) \div 2) * 2 + 1 ELSE n + r[3]
    ELSE n

\* strings.ToLower on one character; strings.Map writes U+FFFD for a byte
\* that belongs to no character
LowerChar(c) == IF IsByte(c) THEN "U+FFFD" ELSE Char(UnicodeToLower(Rune(c)))

\* strings.ToLower
ToLower(s) == [i \in 1..Len(s) |-> LowerChar(s[i])]

\* strings.Fields: the maximal runs of non-space characters
RECURSIVE WordLen(_)
WordLen(u) == IF u = <<>> \/ IsSpace(Head(u)) THEN 0 ELSE 1 + WordLen(Tail(u))

RECURSIVE Fields(_)
Fields(s) ==
    LET t == TrimLeft(s)
    IN  IF t = <<>> THEN <<>>
        ELSE <<SubSeq(t, 1, WordLen(t))>> \o Fields(SubSeq(t, WordLen(t) + 1, Len(t)))

\* strings.Join
RECURSIVE Join(_, _)
Join(parts, sep) ==
    IF parts = <<>> THEN <<>>
    ELSE IF Len(parts) = 1 THEN parts[1]
    ELSE parts[1] \o sep \o Join(Tail(parts), sep)

normalizeForKey(s) == Join(Fields(ToLower(TrimSpace(s))), <<" ">>)

normalizeTitle(s) ==
    LET r == TrimSpace(ReplaceNewlines(s))
    IN  IF ByteLen(r) > TitleMaxLen THEN BytePrefix(r, TitleMaxLen) ELSE r

\* the digest is collision free; the key is the text that is hashed
makeTitleKey(msgs, model, promptVersion) ==
    LET first == IF Len(msgs) > 0 THEN normalizeForKey(msgs[1].content) ELSE <<>>
    IN  Join(<< <<"title">>, model, promptVersion, first >>, <<"|">>)

\* ------------------------------------------------------------------ inputs
DefaultTitle == <<"Untitled conversation">>
UserMessages == { <<" ">>, <<"a">>, <<" ", "A">>, <<"b">> }
RawTitles == { <<" ">>, <<"T">>, <<"\n", "U", " ">> }
TitleErrors == { "boom", "timeout" }
ReplyTexts == { <<"R">> }
ReplyErrors == { "reply failed" }
\* conversation ids: 0 is a conversation that exists before the server
\* starts, a turn that creates one uses its own number, EmptyId is the id ""
OldConv == 0
EmptyId == -1
ConvIds == {OldConv} \cup Turns
RequestIds == {EmptyId} \cup ConvIds

UserMsg(t, text) == [id |-> <<t, "u">>, role |-> "user", content |-> text]
AssistantMsg(t, text) == [id |-> <<t, "a">>, role |-> "assistant", content |-> text]

\* ------------------------------------------------------- persistence store
\* model.Repository: a conversation is stored and replaced as one document
CreateConversation(st, id, c) == [st EXCEPT ![id] = c]
UpdateConversation(st, id, c) == [st EXCEPT ![id] = c]
DescribeConversation(st, id) == st[id]
Exists(st, id) == id \in ConvIds /\ st[id] # None

\* ------------------------------------------------------------------- state
VARIABLES
    store,      \* persistence: conversation id -> None or [title, msgs]
    titleLRU,   \* Server.titleLRU
    sfCalls,    \* Server.titleSF: set of [key, owner], the calls in flight
    callRes,    \* result of the singleflight call a turn owns: None or [val, err]
    pc,         \* position of each RPC call
    kind,       \* "start" or "continue"
    req,        \* the request: None or [id, message]
    conv,       \* the conversation value the turn owns: [id, title, msgs]
    pre,        \* message sequence of the conversation before the turn
    title,      \* StartConversation's variable title
    reply,      \* the variable reply
    ttask,      \* position of the title goroutine
    rtask,      \* position of the reply goroutine
    gerr,       \* first error of the errgroup (or of Reply in a continuation)
    tkey,       \* cache key of the turn's title request
    attached,   \* owner of the singleflight call the turn shares
    tres,       \* what generateTitle returned to the turn: None or [val, err]
    resp,       \* what the RPC returned: None or [err, out]
    calls,      \* number of collaborator calls a turn has made
    updOK,      \* the turn's final UpdateConversation succeeded
    order,      \* the turn's goroutines ("title", "reply") in the order they returned
    tbudget,    \* None or [remaining, budget]: time.Until(dl) and titleBudget, in ms
    concWith,   \* turns with the same key inside generateTitle when the turn entered it
    lastTitle,  \* set of [key, val]: the title last computed for a key; <<>> when the
                \* computation returned an empty title and the key is not cached
    evicted,    \* keys that have been dropped from the LRU
    seenAtLookup, \* the title computed for the key, and not evicted, before the turn's lookup
    cachedBy,   \* set of [key, by]: the turn whose computation added the key's cache entry
    lruSize,    \* the size given to lru.New
    useOrder,   \* the keys looked up with a hit or added, least recently used first
    now,        \* the clock, in ms
    tstart,     \* the time at which the call set up its request context
    tfail       \* the time at which a goroutine of the call's errgroup returned an
                \* error, which cancels gctx

VARIABLES
    lpc,        \* "Idle", "AwaitingModel", "DispatchingTools", "Done", "Failed"
    li,         \* the loop variable i
    lmsgs,      \* msgs, the history sent to the model
    lpending,   \* tool calls of the current response not yet dispatched
    lmodel,     \* number of calls of Chat.Completions.New
    lres,       \* what Reply returned: [text, err]
    lcall,      \* what the last model call returned: "none" before the first call,
                \* "error", "nochoices", "final" or "toolcalls"
    lweather,   \* a.weatherService # nil
    lfeed       \* the events LoadCalendar returns, in feed order

loopVars == <<lpc, li, lmsgs, lpending, lmodel, lres, lcall, lweather, lfeed>>
turnVars == <<pc, kind, req, conv, pre, title, reply, gerr, resp, calls, updOK, order, tbudget>>
titleVars == <<titleLRU, sfCalls, callRes, ttask, tkey, attached, tres, concWith, lastTitle, evicted,
              seenAtLookup, cachedBy, lruSize, useOrder>>
clockVars == <<now, tstart, tfail>>
serverVars == <<store, rtask, turnVars, titleVars, clockVars>>
vars == <<serverVars, loopVars>>

\* ------------------------------------------------------------ lru.Cache
\* most recently used entry first
LRUHas(c, k) == \E i \in 1..Len(c) : c[i].key = k
LRUVal(c, k) == c[CHOOSE i \in 1..Len(c) : c[i].key = k].val
LRUWithout(c, k) == SelectSeq(c, LAMBDA e : e.key # k)
\* Get: a hit makes the entry the most recently used
LRUGet_NoTouch(c, k) == c

LRUGet(c, k) == IF LRUHas(c, k) THEN <<[key |-> k, val |-> LRUVal(c, k)]>> \o LRUWithout(c, k) ELSE c
\* Add: insert or overwrite as most recently used, drop the oldest past capacity
LRUAdd(c, k, v) ==
    LET pushed == <<[key |-> k, val |-> v]>> \o LRUWithout(c, k)
    IN  IF Len(pushed) > lruSize THEN SubSeq(pushed, 1, lruSize) ELSE pushed
LRUKeys(c) == {c[i].key : i \in 1..Len(c)}

\* the use of key k: it becomes the most recently used key
Used(o, k) == Append(SelectSeq(o, LAMBDA x : x # k), k)

NoCalls == [create |-> 0, describe |-> 0, update |-> 0, title |-> 0, reply |-> 0]
NoConv == [id |-> EmptyId, title |-> <<>>, msgs |-> <<>>]
OldMessages == << [id |-> <<0, "u">>, role |-> "user", content |-> <<"b">>],
                  [id |-> <<0, "a">>, role |-> "assistant", content |-> <<"R">>] >>

\* the holiday calendar of the deployment: dates are day numbers, an event
\* without a usable all-day start is not valid
Feed == << [valid |-> TRUE, date |-> 1, name |-> "New Year"],
           [valid |-> FALSE, date |-> 0, name |-> "broken"],
           [valid |-> TRUE, date |-> 3, name |-> "Sant Joan"],
           [valid |-> TRUE, date |-> 5, name |-> "Christmas"] >>

Init ==
    /\ store = [id \in ConvIds |->
                  IF id = OldConv THEN [title |-> DefaultTitle, msgs |-> OldMessages] ELSE None]
    /\ titleLRU = <<>>
    /\ sfCalls = {}
    /\ callRes = [t \in Turns |-> None]
    /\ pc = [t \in Turns |-> "idle"]
    /\ kind = [t \in Turns |-> "none"]
    /\ req = [t \in Turns |-> None]
    /\ conv = [t \in Turns |-> NoConv]
    /\ pre = [t \in Turns |-> <<>>]
    /\ title = [t \in Turns |-> <<>>]
    /\ reply = [t \in Turns |-> <<>>]
    /\ ttask = [t \in Turns |-> "none"]
    /\ rtask = [t \in Turns |-> "none"]
    /\ gerr = [t \in Turns |-> Nil]
    /\ tkey = [t \in Turns |-> <<>>]
    /\ attached = [t \in Turns |-> NoTurn]
    /\ tres = [t \in Turns |-> None]
    /\ resp = [t \in Turns |-> None]
    /\ calls = [t \in Turns |-> NoCalls]
    /\ updOK = [t \in Turns |-> FALSE]
    /\ order = [t \in Turns |-> <<>>]
    /\ tbudget = [t \in Turns |-> None]
    /\ concWith = [t \in Turns |-> {}]
    /\ lastTitle = {}
    /\ evicted = {}
    /\ seenAtLookup = [t \in Turns |-> None]
    /\ cachedBy = {}
    /\ lruSize = TitleCacheSize
    /\ useOrder = <<>>
    /\ now = 0
    /\ tstart = [t \in Turns |-> 0]
    /\ tfail = [t \in Turns |-> 0]
    /\ lpc = "Idle"
    /\ li = 0
    /\ lmsgs = <<>>
    /\ lpending = <<>>
    /\ lmodel = 0
    /\ lres = [text |-> <<>>, err |-> Nil]
    /\ lcall = "none"
    /\ lweather = FALSE
    /\ lfeed = Feed

\* a nil response with an error, and a response with a nil error
Failure(e) == [err |-> e, out |-> None]
Success(id, ti, re) == [err |-> Nil, out |-> [id |-> id, title |-> ti, reply |-> re]]
Count(t, f) == [calls EXCEPT ![t][f] = @ + 1]

\* ------------------------------------------------- Server.StartConversation
\* the conversation built from the request: default title, one user message
NewConversation(t, text) ==
    [id |-> t, title |-> DefaultTitle, msgs |-> <<UserMsg(t, text)>>]

Stored(c) == [title |-> c.title, msgs |-> c.msgs]

\* the early CreateConversation is required: its error ends the turn
AfterCreate_IgnoreError(createOk) == "created"

AfterCreate(createOk) == IF createOk THEN "created" ELSE "done"

\* validation, construction of the conversation and the early CreateConversation
StartConversation(t, text, createOk) ==
    /\ pc[t] = "idle"
    /\ kind' = [kind EXCEPT ![t] = "start"]
    /\ req' = [req EXCEPT ![t] = [id |-> EmptyId, message |-> text]]
    /\ IF TrimSpace(text) = <<>>
       THEN /\ pc' = [pc EXCEPT ![t] = "done"]
            /\ resp' = [resp EXCEPT ![t] = Failure("required: message")]
            /\ UNCHANGED <<store, conv, calls>>
       ELSE /\ conv' = [conv EXCEPT ![t] = NewConversation(t, text)]
            /\ calls' = Count(t, "create")
            /\ pc' = [pc EXCEPT ![t] = AfterCreate(createOk)]
            /\ IF createOk
               THEN /\ store' = CreateConversation(store, t, Stored(conv'[t]))
                    /\ UNCHANGED resp
               ELSE /\ resp' = [resp EXCEPT ![t] = Failure("repository")]
                    /\ UNCHANGED store
    /\ UNCHANGED <<pre, title, reply, gerr, updOK, order, tbudget, rtask, titleVars>>
    /\ UNCHANGED <<loopVars, clockVars>>

\* turns of the same key that are inside generateTitle
InGenerateTitle(k) == {u \in Turns : ttask[u] \in {"lookup", "do", "computing", "sfwait"} /\ tkey[u] = k}

\* the adaptive title budget; remaining is time.Until(dl) of ctxReq, whose
\* deadline always exists
titleBudget_NoFloor(remaining) ==
    IF remaining - SafetyMargin < MaxTitleBudget THEN remaining - SafetyMargin ELSE MaxTitleBudget

titleBudget(remaining) ==
    LET rem == remaining - SafetyMargin
    IN  IF rem < MaxTitleBudget
        THEN IF rem <= 0 THEN MinTitleBudget ELSE rem
        ELSE MaxTitleBudget

\* the title budget, then g.Go(title) and g.Go(reply): both goroutines are started
Fork(t, remaining) ==
    /\ pc[t] = "created"
    /\ tbudget' = [tbudget EXCEPT ![t] = [remaining |-> remaining, budget |-> titleBudget(remaining)]]
    /\ pc' = [pc EXCEPT ![t] = "forked"]
    /\ ttask' = [ttask EXCEPT ![t] = "lookup"]
    /\ rtask' = [rtask EXCEPT ![t] = "running"]
    /\ tkey' = [tkey EXCEPT ![t] = makeTitleKey(conv[t].msgs, <<"o1">>, <<"v1">>)]
    /\ concWith' = [concWith EXCEPT ![t] = InGenerateTitle(tkey'[t])]
    /\ calls' = Count(t, "reply")
    /\ tstart' = [tstart EXCEPT ![t] = now]
    /\ UNCHANGED <<store, kind, req, conv, pre, title, reply, gerr, resp, updOK, order>>
    /\ UNCHANGED <<titleLRU, sfCalls, callRes, attached, tres, lastTitle, evicted, seenAtLookup, cachedBy,
                 lruSize, useOrder>>
    /\ UNCHANGED <<loopVars, now, tfail>>

\* the title goroutine's use of what generateTitle returned
TitleOf_Raw(cur, r) == IF r.err # Nil THEN cur ELSE r.val

TitleOf(cur, r) ==
    IF r.err # Nil \/ TrimSpace(r.val) = <<>> THEN cur ELSE TrimSpace(r.val)

LastTitleOf(k) == {e \in lastTitle : e.key = k}

\* generateTitle: the LRU lookup
TitleLookup(t) ==
    /\ ttask[t] = "lookup"
    /\ seenAtLookup' = [seenAtLookup EXCEPT ![t] =
           IF \E e \in LastTitleOf(tkey[t]) : e.val # <<>> /\ tkey[t] \notin evicted
           THEN [val |-> (CHOOSE e \in LastTitleOf(tkey[t]) : TRUE).val] ELSE None]
    /\ titleLRU' = LRUGet(titleLRU, tkey[t])
    /\ useOrder' = IF LRUHas(titleLRU, tkey[t]) THEN Used(useOrder, tkey[t]) ELSE useOrder
    /\ IF LRUHas(titleLRU, tkey[t])
       THEN /\ tres' = [tres EXCEPT ![t] = [val |-> LRUVal(titleLRU, tkey[t]), err |-> Nil]]
            /\ title' = [title EXCEPT ![t] = TitleOf(@, tres'[t])]
            /\ ttask' = [ttask EXCEPT ![t] = "done"]
            /\ order' = [order EXCEPT ![t] = Append(@, "title")]
       ELSE /\ ttask' = [ttask EXCEPT ![t] = "do"]
            /\ UNCHANGED <<tres, title, order>>
    /\ UNCHANGED <<store, rtask, pc, kind, req, conv, pre, reply, gerr, resp, calls, updOK, tbudget>>
    /\ UNCHANGED <<sfCalls, callRes, tkey, attached, concWith, lastTitle, evicted, cachedBy, lruSize>>
    /\ UNCHANGED <<loopVars, clockVars>>

\* singleflight.Group.Do: share the call in flight for the key, or start one
InFlight(k) == {c \in sfCalls : c.key = k}

TitleDo(t) ==
    /\ ttask[t] = "do"
    /\ IF InFlight(tkey[t]) # {}
       THEN /\ attached' = [attached EXCEPT ![t] = (CHOOSE c \in InFlight(tkey[t]) : TRUE).owner]
            /\ ttask' = [ttask EXCEPT ![t] = "sfwait"]
            /\ UNCHANGED <<sfCalls, calls>>
       ELSE /\ sfCalls' = sfCalls \cup {[key |-> tkey[t], owner |-> t]}
            /\ attached' = [attached EXCEPT ![t] = t]
            /\ ttask' = [ttask EXCEPT ![t] = "computing"]
            /\ calls' = Count(t, "title")
    /\ UNCHANGED <<store, rtask, pc, kind, req, conv, pre, title, reply, gerr, resp, updOK, order, tbudget>>
    /\ UNCHANGED <<titleLRU, callRes, tkey, tres, concWith, lastTitle, evicted, seenAtLookup, cachedBy,
                 lruSize, useOrder>>
    /\ UNCHANGED <<loopVars, clockVars>>

\* the function given to singleflight: what it returns for Title's (t, err)
ComputeResult(raw, err) ==
    IF err = Nil /\ normalizeTitle(raw) # <<>>
    THEN [val |-> normalizeTitle(raw), err |-> Nil]
    ELSE [val |-> raw, err |-> err]

\* ... and the cache it leaves
ComputeCache_Always(c, k, raw, err) == LRUAdd(c, k, normalizeTitle(raw))

ComputeCache_Never(c, k, raw, err) == c

ComputeCache(c, k, raw, err) ==
    IF err = Nil /\ normalizeTitle(raw) # <<>> THEN LRUAdd(c, k, normalizeTitle(raw)) ELSE c

\* assist.Title returns inside the singleflight call: the function adds the
\* title to the cache and returns; the call holds its result but is still
\* in the group
TitleCompute(t, raw, err) ==
    /\ ttask[t] = "computing"
    /\ titleLRU' = ComputeCache(titleLRU, tkey[t], raw, err)
    /\ callRes' = [callRes EXCEPT ![t] = ComputeResult(raw, err)]
    /\ UNCHANGED sfCalls
    /\ ttask' = [ttask EXCEPT ![t] = "sfwait"]
    /\ lastTitle' =
           IF err = Nil /\ TrimSpace(ReplaceNewlines(raw)) # <<>>
           THEN (lastTitle \ LastTitleOf(tkey[t]))
                    \cup {[key |-> tkey[t], val |-> normalizeTitle(raw)]}
           ELSE IF err = Nil /\ ~LRUHas(titleLRU, tkey[t])
           THEN (lastTitle \ LastTitleOf(tkey[t])) \cup {[key |-> tkey[t], val |-> <<>>]}
           ELSE lastTitle
    /\ evicted' = evicted \cup (LRUKeys(titleLRU) \ LRUKeys(titleLRU'))
    /\ cachedBy' =
           IF ~(err = Nil /\ normalizeTitle(raw) # <<>> /\ LRUHas(titleLRU', tkey[t]))
           THEN {e \in cachedBy : e.key \in LRUKeys(titleLRU')}
           ELSE {e \in cachedBy : e.key # tkey[t] /\ e.key \in LRUKeys(titleLRU')}
                    \cup {[key |-> tkey[t], by |-> t]}
    /\ UNCHANGED <<store, rtask, turnVars>>
    /\ useOrder' = IF err = Nil /\ TrimSpace(ReplaceNewlines(raw)) # <<>>
                    THEN Used(useOrder, tkey[t]) ELSE useOrder
    /\ UNCHANGED <<tkey, attached, tres, concWith, seenAtLookup, lruSize>>
    /\ UNCHANGED <<loopVars, clockVars>>

\* singleflight, after the function has returned: the call is removed from
\* the group and its waiters are released
TitleForget(t) ==
    /\ [key |-> tkey[t], owner |-> t] \in sfCalls
    /\ callRes[t] # None
    /\ sfCalls' = sfCalls \ {[key |-> tkey[t], owner |-> t]}
    /\ UNCHANGED <<store, rtask, turnVars>>
    /\ UNCHANGED <<titleLRU, callRes, ttask, tkey, attached, tres, concWith, lastTitle, evicted,
                 seenAtLookup, cachedBy, lruSize, useOrder>>
    /\ UNCHANGED <<loopVars, clockVars>>

\* generateTitle's return of what Do gave the owner and every waiter
DoReturn_DropError(r) == [val |-> r.val, err |-> Nil]

DoReturn(r) == IF r.err # Nil THEN [val |-> <<>>, err |-> r.err] ELSE r

TitleReturn(t) ==
    /\ ttask[t] = "sfwait"
    /\ callRes[attached[t]] # None
    /\ [key |-> tkey[t], owner |-> attached[t]] \notin sfCalls
    /\ tres' = [tres EXCEPT ![t] = DoReturn(callRes[attached[t]])]
    /\ title' = [title EXCEPT ![t] = TitleOf(@, tres'[t])]
    /\ ttask' = [ttask EXCEPT ![t] = "done"]
    /\ order' = [order EXCEPT ![t] = Append(@, "title")]
    /\ UNCHANGED <<store, rtask, pc, kind, req, conv, pre, reply, gerr, resp, calls, updOK, tbudget>>
    /\ UNCHANGED <<titleLRU, sfCalls, callRes, tkey, attached, concWith, lastTitle, evicted, seenAtLookup,
                 cachedBy, lruSize, useOrder>>
    /\ UNCHANGED <<loopVars, clockVars>>

\* the reply goroutine: generateReply -> assist.Reply returns
ReplyDone(t, text, err) ==
    /\ pc[t] = "forked"
    /\ rtask[t] = "running"
    /\ rtask' = [rtask EXCEPT ![t] = "done"]
    /\ order' = [order EXCEPT ![t] = Append(@, "reply")]
    /\ IF err # Nil
       THEN /\ gerr' = [gerr EXCEPT ![t] = err]
            /\ tfail' = [tfail EXCEPT ![t] = now]
            /\ UNCHANGED reply
       ELSE /\ reply' = [reply EXCEPT ![t] = text]
            /\ UNCHANGED <<gerr, tfail>>
    /\ UNCHANGED <<store, pc, kind, req, conv, pre, title, resp, calls, updOK, tbudget, titleVars>>
    /\ UNCHANGED <<loopVars, now, tstart>>

\* g.Wait returns once both goroutines have returned, with the first error
WaitDone_ReplyOnly(t) == rtask[t] = "done"

WaitDone(t) == ttask[t] = "done" /\ rtask[t] = "done"

\* the error g.Wait returns: the reply goroutine's, the title goroutine has none
WaitError_Nil(t) == Nil

WaitError(t) == gerr[t]

\* the conversation after the merge of title and reply
Merged_NoAppend(c, t, ti, re) ==
    [c EXCEPT !.title = IF ti # <<>> THEN ti ELSE @]

Merged_KeepTitle(c, t, ti, re) ==
    [c EXCEPT !.msgs = Append(@, AssistantMsg(t, re))]

Merged(c, t, ti, re) ==
    [c EXCEPT !.title = IF ti # <<>> THEN ti ELSE @,
              !.msgs = Append(@, AssistantMsg(t, re))]

\* whether a failed final write fails the first turn
StartUpdateFatal_Yes == TRUE

StartUpdateFatal == FALSE

\* the rest of StartConversation after g.Wait
Finish(t, updateOk) ==
    /\ pc[t] = "forked"
    /\ WaitDone(t)
    /\ pc' = [pc EXCEPT ![t] = "done"]
    /\ IF WaitError(t) # Nil
       THEN /\ resp' = [resp EXCEPT ![t] = Failure("internal")]
            /\ UNCHANGED <<store, conv, calls, updOK>>
       ELSE /\ conv' = [conv EXCEPT ![t] = Merged(@, t, title[t], reply[t])]
            /\ calls' = Count(t, "update")
            /\ updOK' = [updOK EXCEPT ![t] = updateOk]
            /\ store' = IF updateOk THEN UpdateConversation(store, conv[t].id, Stored(conv'[t]))
                        ELSE store
            /\ resp' = [resp EXCEPT ![t] =
                   IF ~updateOk /\ StartUpdateFatal THEN Failure("internal")
                   ELSE Success(conv[t].id, conv'[t].title, reply[t])]
    /\ UNCHANGED <<kind, req, pre, title, reply, gerr, order, tbudget, rtask, titleVars>>
    /\ UNCHANGED <<loopVars, clockVars>>

\* ---------------------------------------------- Server.ContinueConversation
\* the store after the user message was appended to the conversation value:
\* the append is in memory only
AfterAppend_Written(st, id, c) == UpdateConversation(st, id, c)

AfterAppend(st, id, c) == st

\* validation, DescribeConversation and the in-memory append of the user message
ContinueConversation(t, id, text, describeOk) ==
    /\ pc[t] = "idle"
    /\ kind' = [kind EXCEPT ![t] = "continue"]
    /\ req' = [req EXCEPT ![t] = [id |-> id, message |-> text]]
    /\ IF id = EmptyId
       THEN /\ pc' = [pc EXCEPT ![t] = "done"]
            /\ resp' = [resp EXCEPT ![t] = Failure("required: conversation_id")]
            /\ UNCHANGED <<store, conv, pre, calls>>
       ELSE IF TrimSpace(text) = <<>>
       THEN /\ pc' = [pc EXCEPT ![t] = "done"]
            /\ resp' = [resp EXCEPT ![t] = Failure("required: message")]
            /\ UNCHANGED <<store, conv, pre, calls>>
       ELSE IF ~(describeOk /\ Exists(store, id))
       THEN /\ pc' = [pc EXCEPT ![t] = "done"]
            /\ resp' = [resp EXCEPT ![t] = Failure("repository")]
            /\ calls' = Count(t, "describe")
            /\ UNCHANGED <<store, conv, pre>>
       ELSE /\ pc' = [pc EXCEPT ![t] = "replying"]
            /\ pre' = [pre EXCEPT ![t] = DescribeConversation(store, id).msgs]
            /\ conv' = [conv EXCEPT ![t] =
                   [id |-> id, title |-> DescribeConversation(store, id).title,
                    msgs |-> Append(DescribeConversation(store, id).msgs, UserMsg(t, text))]]
            /\ calls' = [calls EXCEPT ![t].describe = @ + 1, ![t].reply = @ + 1]
            /\ store' = AfterAppend(store, id, Stored(conv'[t]))
            /\ UNCHANGED resp
    /\ tstart' = [tstart EXCEPT ![t] = now]
    /\ UNCHANGED <<title, reply, gerr, updOK, order, tbudget, rtask, titleVars>>
    /\ UNCHANGED <<loopVars, now, tfail>>

\* assist.Reply returns; on success the assistant message is appended and
\* the conversation written
ContinueReply(t, text, err, updateOk) ==
    /\ pc[t] = "replying"
    /\ pc' = [pc EXCEPT ![t] = "done"]
    /\ IF err # Nil
       THEN /\ gerr' = [gerr EXCEPT ![t] = err]
            /\ resp' = [resp EXCEPT ![t] = Failure("internal")]
            /\ UNCHANGED <<store, conv, reply, calls, updOK>>
       ELSE /\ reply' = [reply EXCEPT ![t] = text]
            /\ conv' = [conv EXCEPT ![t].msgs = Append(@, AssistantMsg(t, text))]
            /\ calls' = Count(t, "update")
            /\ updOK' = [updOK EXCEPT ![t] = updateOk]
            /\ store' = IF updateOk THEN UpdateConversation(store, conv[t].id, Stored(conv'[t]))
                        ELSE store
            /\ resp' = [resp EXCEPT ![t] =
                   IF updateOk
                   THEN Success(EmptyId, <<>>, text)
                   ELSE Failure("internal")]
            /\ UNCHANGED gerr
    /\ UNCHANGED <<kind, req, pre, title, order, tbudget, rtask, titleVars>>
    /\ UNCHANGED <<loopVars, clockVars>>

\* =========================================================================
\* Assistant.Reply: the bounded tool-calling loop
\* =========================================================================
\* rounds in which the model stub may answer with any list of tool calls;
\* in later rounds a tool-call answer is a single call
VariedRounds == 1
\* longest list of tool calls in one response
MaxToolCalls == 2

WeatherKeywords ==
    { <<"w","e","a","t","h","e","r">>, <<"t","e","m","p","e","r","a","t","u","r","e">>,
      <<"f","o","r","e","c","a","s","t">>, <<"c","l","i","m","a","t","e">>,
      <<"h","o","t">>, <<"c","o","l","d">>, <<"r","a","i","n">>, <<"s","n","o","w">>,
      <<"s","u","n","n","y">>, <<"c","l","o","u","d","y">>, <<"w","i","n","d">>,
      <<"h","u","m","i","d","i","t","y">>, <<"°","c">>, <<"°","f">>,
      <<"c","e","l","s","i","u","s">>, <<"f","a","h","r","e","n","h","e","i","t">> }

\* strings.Contains
Contains(s, sub) ==
    \E i \in 1..(Len(s) + 1) : i + Len(sub) - 1 <= Len(s) /\ SubSeq(s, i, i + Len(sub) - 1) = sub

isWeatherQuery(content) == \E kw \in WeatherKeywords : Contains(ToLower(content), kw)

ForcePrefix == <<"IMPORTANT: You MUST use the get_weather function ... Question: ">>

\* the system prompt followed by the conversation's user and assistant messages
RECURSIVE History(_)
History(ms) ==
    IF ms = <<>> THEN <<>>
    ELSE LET m == Head(ms)
             e == IF m.role = "user"
                  THEN <<[kind |-> "user",
                          content |-> IF isWeatherQuery(m.content)
                                      THEN ForcePrefix \o m.content ELSE m.content]>>
                  ELSE IF m.role = "assistant"
                  THEN <<[kind |-> "assistant", content |-> m.content]>>
                  ELSE <<>>
         IN  e \o History(Tail(ms))

SystemMessage == [kind |-> "system", content |-> <<"You are a helpful AI assistant ...">>]

KnownTools == {"get_weather", "get_today_date", "get_holidays"}
ToolNames == KnownTools \cup {"get_news"}

TooManyToolCalls == "too many tool calls, unable to generate reply"
NoChoices == "no choices returned by OpenAI"
NoMessages == "conversation has no messages"
UnknownTool == "unknown tool call"
ModelFailure == "model call failed"

\* WeatherService.GetForecast: the number of days that is queried
ForecastDays_NoClamp(days) == days

ForecastDays(days) == IF days < 1 \/ days > 14 THEN 3 ELSE days

\* the holiday feed: events in feed order; an event without a usable
\* all-day start is skipped
RECURSIVE Holidays_NoCutoff(_, _, _)
Holidays_NoCutoff(events, p, acc) ==
    IF events = <<>> THEN acc
    ELSE LET ev == Head(events)
         IN  IF ~ev.valid THEN Holidays_NoCutoff(Tail(events), p, acc)
             ELSE IF p.before # 0 /\ ev.date > p.before THEN Holidays_NoCutoff(Tail(events), p, acc)
             ELSE IF p.after # 0 /\ ev.date < p.after THEN Holidays_NoCutoff(Tail(events), p, acc)
             ELSE Holidays_NoCutoff(Tail(events), p, Append(acc, [date |-> ev.date, name |-> ev.name]))

RECURSIVE Holidays(_, _, _)
Holidays(events, p, acc) ==
    IF events = <<>> THEN acc
    ELSE LET ev == Head(events)
         IN  IF ~ev.valid THEN Holidays(Tail(events), p, acc)
             ELSE IF p.max > 0 /\ Len(acc) >= p.max THEN acc
             ELSE IF p.before # 0 /\ ev.date > p.before THEN Holidays(Tail(events), p, acc)
             ELSE IF p.after # 0 /\ ev.date < p.after THEN Holidays(Tail(events), p, acc)
             ELSE Holidays(Tail(events), p, Append(acc, [date |-> ev.date, name |-> ev.name]))

\* n: the days parameter of the forecast request that was sent (0: none)
ToolMessage_NoId(id, text, n, lines) ==
    [kind |-> "tool", id |-> <<0, 0>>, text |-> text, n |-> n, lines |-> lines]

ToolMessage(id, text, n, lines) ==
    [kind |-> "tool", id |-> id, text |-> text, n |-> n, lines |-> lines]

\* the tool-result message of one call with a known name, without the checks
\* of the arguments, of the weather service and of the capability call
ToolResult_NoChecks(call, configured, envOk, feed) ==
    CASE call.name = "get_weather" -> ToolMessage(call.id, "current weather", 0, <<>>)
      [] call.name = "get_today_date" -> ToolMessage(call.id, "now", 0, <<>>)
      [] call.name = "get_holidays" ->
            ToolMessage(call.id, "holidays", 0, Holidays(feed, call.args, <<>>))

\* the tool-result message of one call with a known name
\* configured: the weather service exists; envOk: the capability call succeeds
ToolResult(call, configured, envOk, feed) ==
    CASE call.name = "get_weather" ->
            IF ~call.args.ok
            THEN ToolMessage(call.id, "failed to parse weather request arguments", 0, <<>>)
            ELSE IF ~configured
            THEN ToolMessage(call.id, "Weather service is not configured", 0, <<>>)
            ELSE IF call.args.hasDays /\ call.args.days > 0
            THEN IF envOk
                 THEN ToolMessage(call.id, "forecast", ForecastDays(call.args.days), <<>>)
                 ELSE ToolMessage(call.id, "Failed to get weather information",
                                  ForecastDays(call.args.days), <<>>)
            ELSE IF envOk
                 THEN ToolMessage(call.id, "current weather", 0, <<>>)
                 ELSE ToolMessage(call.id, "Failed to get weather information", 0, <<>>)
      [] call.name = "get_today_date" -> ToolMessage(call.id, "now", 0, <<>>)
      [] call.name = "get_holidays" ->
            IF ~envOk
            THEN ToolMessage(call.id, "failed to load holiday events", 0, <<>>)
            ELSE IF ~call.args.ok
            THEN ToolMessage(call.id, "failed to parse tool call arguments", 0, <<>>)
            ELSE ToolMessage(call.id, "holidays", 0, Holidays(feed, call.args, <<>>))

\* inputs of the loop
LoopConversations ==
    { <<>>,
      << [role |-> "user", content |-> <<"h","i">>] >>,
      << [role |-> "user", content |-> <<"R","a","i","n","?">>],
         [role |-> "assistant", content |-> <<"R">>],
         [role |-> "user", content |-> <<"b">>] >> }
NoArgs == [ok |-> TRUE, hasDays |-> FALSE, days |-> 0, before |-> 0, after |-> 0, max |-> 0]
BadArgs == [NoArgs EXCEPT !.ok = FALSE]
ToolArgs(name) ==
    CASE name = "get_weather" -> {BadArgs, NoArgs, [NoArgs EXCEPT !.hasDays = TRUE, !.days = 20]}
      [] name = "get_holidays" -> {BadArgs, [NoArgs EXCEPT !.after = 2, !.max = 1]}
      [] OTHER -> {NoArgs}
ToolCall(name, args) == [name |-> name, args |-> args]
AllCalls == {ToolCall(n, a) : <<n, a>> \in UNION {{<<n, a>> : a \in ToolArgs(n)} : n \in ToolNames}}
SimpleCalls == {ToolCall(n, NoArgs) : n \in {"get_today_date", "get_news"}}

\* Reply up to the first iteration of the loop
ReplyStart(ms, configured) ==
    /\ lpc = "Idle"
    /\ lweather' = configured
    /\ IF Len(ms) = 0
       THEN /\ lpc' = "Failed"
            /\ lres' = [text |-> <<>>, err |-> NoMessages]
            /\ UNCHANGED lmsgs
       ELSE /\ lpc' = "AwaitingModel"
            /\ lmsgs' = <<SystemMessage>> \o History(ms)
            /\ UNCHANGED lres
    /\ UNCHANGED <<li, lpending, lmodel, lcall, lfeed>>
    /\ UNCHANGED serverVars

\* Reply's return of an error: no text
Aborted_NoError(e) == [text |-> <<>>, err |-> Nil]

Aborted(e) == [text |-> <<>>, err |-> e]

\* the model call returns an error
ModelError ==
    /\ lpc = "AwaitingModel"
    /\ lmodel' = lmodel + 1
    /\ lcall' = "error"
    /\ lpc' = "Failed"
    /\ lres' = Aborted(ModelFailure)
    /\ UNCHANGED <<li, lmsgs, lpending, lweather, lfeed>>
    /\ UNCHANGED serverVars

\* the model call returns a response without choices
ModelNoChoices ==
    /\ lpc = "AwaitingModel"
    /\ lmodel' = lmodel + 1
    /\ lcall' = "nochoices"
    /\ lpc' = "Failed"
    /\ lres' = Aborted(NoChoices)
    /\ UNCHANGED <<li, lmsgs, lpending, lweather, lfeed>>
    /\ UNCHANGED serverVars

\* the first choice carries no tool call: its content is the reply
ModelFinal(text) ==
    /\ lpc = "AwaitingModel"
    /\ lmodel' = lmodel + 1
    /\ lcall' = "final"
    /\ lpc' = "Done"
    /\ lres' = [text |-> text, err |-> Nil]
    /\ UNCHANGED <<li, lmsgs, lpending, lweather, lfeed>>
    /\ UNCHANGED serverVars

WithIds(cs, round) == [k \in 1..Len(cs) |-> [id |-> <<round, k>>, name |-> cs[k].name, args |-> cs[k].args]]

\* the first choice carries tool calls: the message is appended to the history
ModelToolCalls(cs) ==
    /\ lpc = "AwaitingModel"
    /\ Len(cs) >= 1
    /\ lmodel' = lmodel + 1
    /\ lcall' = "toolcalls"
    /\ lpc' = "DispatchingTools"
    /\ lpending' = WithIds(cs, li)
    /\ lmsgs' = Append(lmsgs, [kind |-> "toolcalls", calls |-> WithIds(cs, li)])
    /\ UNCHANGED <<li, lres, lweather, lfeed>>
    /\ UNCHANGED serverVars

\* the for statement's condition after i++
LoopContinues_OffByOne(i) == i <= MaxRounds

LoopContinues(i) == i < MaxRounds

\* whether a tool name is handled by the switch
IsKnownTool_Any(name) == TRUE

IsKnownTool(name) == name \in KnownTools

\* one iteration of the range over message.ToolCalls; after the last call
\* the loop continues with the next round
DispatchTool(envOk) ==
    /\ lpc = "DispatchingTools"
    /\ lpending # <<>>
    /\ LET call == Head(lpending)
       IN  IF ~IsKnownTool(call.name)
           THEN /\ lpc' = "Failed"
                /\ lres' = [text |-> <<>>, err |-> UnknownTool]
                /\ UNCHANGED <<li, lmsgs, lpending>>
           ELSE /\ lmsgs' = Append(lmsgs,
                       IF call.name \in KnownTools THEN ToolResult(call, lweather, envOk, lfeed)
                       ELSE ToolMessage(call.id, "", 0, <<>>))
                /\ lpending' = Tail(lpending)
                /\ IF Tail(lpending) # <<>>
                   THEN UNCHANGED <<lpc, li, lres>>
                   ELSE /\ li' = li + 1
                        /\ IF LoopContinues(li + 1)
                           THEN lpc' = "AwaitingModel" /\ UNCHANGED lres
                           ELSE /\ lpc' = "Failed"
                                /\ lres' = [text |-> <<>>, err |-> TooManyToolCalls]
    /\ UNCHANGED <<lmodel, lcall, lweather, lfeed>>
    /\ UNCHANGED serverVars

\* lists of tool calls the model stub may return in round i
RECURSIVE CallLists(_, _)
CallLists(S, n) ==
    IF n = 0 THEN {<<>>}
    ELSE LET shorter == CallLists(S, n - 1)
         IN  shorter \cup {Append(l, c) : l \in {x \in shorter : Len(x) = n - 1}, c \in S}
StubCalls(i) ==
    IF i < VariedRounds THEN CallLists(AllCalls, MaxToolCalls) \ {<<>>}
    ELSE {<<c>> : c \in SimpleCalls}

NextLoop ==
    \/ \E ms \in LoopConversations, configured \in BOOLEAN : ReplyStart(ms, configured)
    \/ ModelError
    \/ ModelNoChoices
    \/ \E text \in ReplyTexts : ModelFinal(text)
    \/ \E cs \in StubCalls(li) : ModelToolCalls(cs)
    \/ \E envOk \in BOOLEAN : DispatchTool(envOk)

SpecLoop == Init /\ [][NextLoop]_vars

\* every model call and every capability call returns
ModelReturns ==
    \/ ModelError
    \/ ModelNoChoices
    \/ \E text \in ReplyTexts : ModelFinal(text)
    \/ \E cs \in StubCalls(li) : ModelToolCalls(cs)
ToolReturns == \E envOk \in BOOLEAN : DispatchTool(envOk)

SpecLoopFair == SpecLoop /\ WF_vars(ModelReturns) /\ WF_vars(ToolReturns)

\* -------------------------------------------------- the get_holidays tool
\* one Reply whose first model response is a single get_holidays call, over
\* every feed and every argument payload within the bounds
\* longest feed
MaxFeedLen == 3
\* latest date of an event or of an argument (day number)
MaxDate == 5

Events ==
    {[valid |-> TRUE, date |-> d, name |-> <<"day", d>>] : d \in 1..MaxDate}
        \cup {[valid |-> FALSE, date |-> 0, name |-> <<"broken", 0>>]}
Feeds == CallLists(Events, MaxFeedLen)
\* date 0 is the zero time.Time: the argument is absent
HolidayArgs ==
    {[ok |-> TRUE, hasDays |-> FALSE, days |-> 0, before |-> b, after |-> a, max |-> m] :
        b \in 0..MaxDate, a \in 0..MaxDate, m \in {-1, 0, 1, 2}} \cup {BadArgs}
HolidayStub(i) == IF i = 0 THEN {<<ToolCall("get_holidays", p)>> : p \in HolidayArgs} ELSE {}
HolidayQuestion == << [role |-> "user", content |-> <<"h","i">>] >>

InitHolidays ==
    /\ store = [id \in ConvIds |->
                  IF id = OldConv THEN [title |-> DefaultTitle, msgs |-> OldMessages] ELSE None]
    /\ titleLRU = <<>>
    /\ sfCalls = {}
    /\ callRes = [t \in Turns |-> None]
    /\ pc = [t \in Turns |-> "idle"]
    /\ kind = [t \in Turns |-> "none"]
    /\ req = [t \in Turns |-> None]
    /\ conv = [t \in Turns |-> NoConv]
    /\ pre = [t \in Turns |-> <<>>]
    /\ title = [t \in Turns |-> <<>>]
    /\ reply = [t \in Turns |-> <<>>]
    /\ ttask = [t \in Turns |-> "none"]
    /\ rtask = [t \in Turns |-> "none"]
    /\ gerr = [t \in Turns |-> Nil]
    /\ tkey = [t \in Turns |-> <<>>]
    /\ attached = [t \in Turns |-> NoTurn]
    /\ tres = [t \in Turns |-> None]
    /\ resp = [t \in Turns |-> None]
    /\ calls = [t \in Turns |-> NoCalls]
    /\ updOK = [t \in Turns |-> FALSE]
    /\ order = [t \in Turns |-> <<>>]
    /\ tbudget = [t \in Turns |-> None]
    /\ concWith = [t \in Turns |-> {}]
    /\ lastTitle = {}
    /\ evicted = {}
    /\ seenAtLookup = [t \in Turns |-> None]
    /\ cachedBy = {}
    /\ lruSize = TitleCacheSize
    /\ useOrder = <<>>
    /\ now = 0
    /\ tstart = [t \in Turns |-> 0]
    /\ tfail = [t \in Turns |-> 0]
    /\ lpc = "Idle"
    /\ li = 0
    /\ lmsgs = <<>>
    /\ lpending = <<>>
    /\ lmodel = 0
    /\ lres = [text |-> <<>>, err |-> Nil]
    /\ lcall = "none"
    /\ lweather = FALSE
    /\ lfeed \in Feeds

NextHolidays ==
    \/ ReplyStart(HolidayQuestion, FALSE)
    \/ \E cs \in HolidayStub(li) : ModelToolCalls(cs)
    \/ \E envOk \in BOOLEAN : DispatchTool(envOk)
    \/ \E text \in ReplyTexts : ModelFinal(text)

SpecHolidays == InitHolidays /\ [][NextHolidays]_vars

\* --------------------------------------------------- the get_weather tool
\* one Reply whose first model response is a single get_weather call, over
\* every forecast_days value within the bounds
\* largest forecast_days value the model stub asks for
MaxForecastDays == 16
WeatherArgs ==
    {[NoArgs EXCEPT !.hasDays = TRUE, !.days = d] : d \in (-2)..MaxForecastDays}
        \cup {NoArgs, BadArgs}
WeatherStub(i) == IF i = 0 THEN {<<ToolCall("get_weather", p)>> : p \in WeatherArgs} ELSE {}
WeatherQuestion == << [role |-> "user", content |-> <<"R","a","i","n","?">>] >>

NextWeather ==
    \/ \E configured \in BOOLEAN : ReplyStart(WeatherQuestion, configured)
    \/ \E cs \in WeatherStub(li) : ModelToolCalls(cs)
    \/ \E envOk \in BOOLEAN : DispatchTool(envOk)
    \/ \E text \in ReplyTexts : ModelFinal(text)

SpecWeather == Init /\ [][NextWeather]_vars

\* ------------------------------------------ one RPC call and its Reply loop
\* one RPC call, first turn or continuation, whose call of assist.Reply runs
\* the loop above; the model stub answers with single tool calls
ReplyTurn == CHOOSE t \in Turns : TRUE

\* generateReply and ContinueConversation call assist.Reply with the
\* conversation of the turn
ReplyCall(t, configured) ==
    /\ (pc[t] = "forked" /\ rtask[t] = "running") \/ pc[t] = "replying"
    /\ ReplyStart(conv[t].msgs, configured)

\* assist.Reply returns to the reply goroutine of a first turn
ReplyReturn(t) ==
    /\ lpc \in {"Done", "Failed"}
    /\ ReplyDone(t, lres.text, lres.err)

\* assist.Reply returns to ContinueConversation
ContinueReplyReturn(t, updateOk) ==
    /\ lpc \in {"Done", "Failed"}
    /\ ContinueReply(t, lres.text, lres.err, updateOk)

NextReply ==
    \/ \E text \in UserMessages, ok \in BOOLEAN : StartConversation(ReplyTurn, text, ok)
    \/ Fork(ReplyTurn, RequestTimeout)
    \/ TitleLookup(ReplyTurn)
    \/ TitleDo(ReplyTurn)
    \/ \E raw \in RawTitles : TitleCompute(ReplyTurn, raw, Nil)
    \/ \E e \in TitleErrors : TitleCompute(ReplyTurn, <<>>, e)
    \/ TitleForget(ReplyTurn)
    \/ TitleReturn(ReplyTurn)
    \/ \E id \in RequestIds, text \in UserMessages, ok \in BOOLEAN :
          ContinueConversation(ReplyTurn, id, text, ok)
    \/ \E configured \in BOOLEAN : ReplyCall(ReplyTurn, configured)
    \/ ModelError
    \/ ModelNoChoices
    \/ \E text \in ReplyTexts : ModelFinal(text)
    \/ \E c \in SimpleCalls : ModelToolCalls(<<c>>)
    \/ \E envOk \in BOOLEAN : DispatchTool(envOk)
    \/ ReplyReturn(ReplyTurn)
    \/ \E ok \in BOOLEAN : ContinueReplyReturn(ReplyTurn, ok)
    \/ \E ok \in BOOLEAN : Finish(ReplyTurn, ok)

SpecReply == Init /\ [][NextReply]_vars

\* ---------------------------------------------------- the title budget
\* first turns up to the start of the two tasks, over the time that remains
\* until the request deadline: multiples of 250 ms from an expired deadline to
\* the full request timeout
RemainingSteps == 120
Remainings == {250 * k : k \in (-2)..RemainingSteps}

NextBudget ==
    \/ \E t \in Turns, text \in UserMessages, ok \in BOOLEAN : StartConversation(t, text, ok)
    \/ \E t \in Turns, remaining \in Remainings : Fork(t, remaining)

SpecBudget == Init /\ [][NextBudget]_vars

\* ------------------------------------------- the title cache under load
\* first turns, overlapping or not, on a server whose cache is smaller than
\* the number of distinct first messages; when a call has returned its place
\* is taken by the next request
SeqCacheSize == 2
CacheMessages == { <<"\f", "A">>, <<"b">>, <<"c">> }

InitCache ==
    /\ store = [id \in ConvIds |->
                  IF id = OldConv THEN [title |-> DefaultTitle, msgs |-> OldMessages] ELSE None]
    /\ titleLRU = <<>>
    /\ sfCalls = {}
    /\ callRes = [t \in Turns |-> None]
    /\ pc = [t \in Turns |-> "idle"]
    /\ kind = [t \in Turns |-> "none"]
    /\ req = [t \in Turns |-> None]
    /\ conv = [t \in Turns |-> NoConv]
    /\ pre = [t \in Turns |-> <<>>]
    /\ title = [t \in Turns |-> <<>>]
    /\ reply = [t \in Turns |-> <<>>]
    /\ ttask = [t \in Turns |-> "none"]
    /\ rtask = [t \in Turns |-> "none"]
    /\ gerr = [t \in Turns |-> Nil]
    /\ tkey = [t \in Turns |-> <<>>]
    /\ attached = [t \in Turns |-> NoTurn]
    /\ tres = [t \in Turns |-> None]
    /\ resp = [t \in Turns |-> None]
    /\ calls = [t \in Turns |-> NoCalls]
    /\ updOK = [t \in Turns |-> FALSE]
    /\ order = [t \in Turns |-> <<>>]
    /\ tbudget = [t \in Turns |-> None]
    /\ concWith = [t \in Turns |-> {}]
    /\ lastTitle = {}
    /\ evicted = {}
    /\ seenAtLookup = [t \in Turns |-> None]
    /\ cachedBy = {}
    /\ lruSize = SeqCacheSize
    /\ useOrder = <<>>
    /\ now = 0
    /\ tstart = [t \in Turns |-> 0]
    /\ tfail = [t \in Turns |-> 0]
    /\ lpc = "Idle"
    /\ li = 0
    /\ lmsgs = <<>>
    /\ lpending = <<>>
    /\ lmodel = 0
    /\ lres = [text |-> <<>>, err |-> Nil]
    /\ lcall = "none"
    /\ lweather = FALSE
    /\ lfeed = Feed

\* the RPC call has returned: the next request is served in its place, with
\* a conversation of its own; a call that others still wait for stays
Recycle(t) ==
    /\ pc[t] = "done"
    /\ \A u \in Turns \ {t} : ~(ttask[u] = "sfwait" /\ attached[u] = t)
    /\ store' = [store EXCEPT ![t] = None]
    /\ callRes' = [callRes EXCEPT ![t] = None]
    /\ pc' = [pc EXCEPT ![t] = "idle"]
    /\ kind' = [kind EXCEPT ![t] = "none"]
    /\ req' = [req EXCEPT ![t] = None]
    /\ conv' = [conv EXCEPT ![t] = NoConv]
    /\ pre' = [pre EXCEPT ![t] = <<>>]
    /\ title' = [title EXCEPT ![t] = <<>>]
    /\ reply' = [reply EXCEPT ![t] = <<>>]
    /\ ttask' = [ttask EXCEPT ![t] = "none"]
    /\ rtask' = [rtask EXCEPT ![t] = "none"]
    /\ gerr' = [gerr EXCEPT ![t] = Nil]
    /\ tkey' = [tkey EXCEPT ![t] = <<>>]
    /\ attached' = [attached EXCEPT ![t] = NoTurn]
    /\ tres' = [tres EXCEPT ![t] = None]
    /\ resp' = [resp EXCEPT ![t] = None]
    /\ calls' = [calls EXCEPT ![t] = NoCalls]
    /\ updOK' = [updOK EXCEPT ![t] = FALSE]
    /\ order' = [order EXCEPT ![t] = <<>>]
    /\ tbudget' = [tbudget EXCEPT ![t] = None]
    /\ concWith' = [concWith EXCEPT ![t] = {}]
    /\ seenAtLookup' = [seenAtLookup EXCEPT ![t] = None]
    /\ UNCHANGED <<titleLRU, sfCalls, lastTitle, evicted, cachedBy, lruSize, useOrder>>
    /\ UNCHANGED <<loopVars, clockVars>>

\* strings.Trim(s, cutset)
RECURSIVE TrimLeftSet(_, _)
TrimLeftSet(s, cutset) ==
    IF s = <<>> THEN s
    ELSE IF Head(s) \in cutset THEN TrimLeftSet(Tail(s), cutset) ELSE s

RECURSIVE TrimRightSet(_, _)
TrimRightSet(s, cutset) ==
    IF s = <<>> THEN s
    ELSE IF s[Len(s)] \in cutset THEN TrimRightSet(SubSeq(s, 1, Len(s) - 1), cutset) ELSE s

Trim(s, cutset) == TrimRightSet(TrimLeftSet(s, cutset), cutset)

TitleCutset == {" ", "\t", "\r", "\n", "-", "\"", "'"}
EmptyTitleResponse == "empty response from OpenAI for title generation"

\* Assistant.Title: what it makes of the content of the model's first choice
AssistantTitle(content) ==
    IF TrimSpace(content) = <<>> THEN [val |-> <<>>, err |-> EmptyTitleResponse]
    ELSE LET t == Trim(ReplaceNewlines(content), TitleCutset)
         IN  [val |-> IF ByteLen(t) > TitleMaxLen THEN BytePrefix(t, TitleMaxLen) ELSE t,
              err |-> Nil]

\* n times the letter a
Pad(n) == [i \in 1..n |-> "a"]
\* the Assistant the cache is exercised with answers by the first message:
\* a short title, an implementation's own title of 81 characters, the
\* repository's Title on a model answer of 81 characters with a quote
StubLongTitle == Pad(TitleMaxLen - 1) \o <<" ", "b">>
StubQuotedTitle == AssistantTitle(Pad(TitleMaxLen - 1) \o <<"\"", "b">>)
StubTitle(msgs) ==
    LET text == TrimSpace(msgs[1].content)
    IN  IF text = <<"b">> THEN [val |-> StubLongTitle, err |-> Nil]
        ELSE IF text = <<"c">> THEN StubQuotedTitle
        ELSE [val |-> <<"T">>, err |-> Nil]

\* the error of a title call that fails
StubErrors == { "boom" }

NextCache ==
    \/ \E t \in Turns, text \in CacheMessages : StartConversation(t, text, TRUE)
    \/ \E t \in Turns : Fork(t, RequestTimeout)
    \/ \E t \in Turns : TitleLookup(t)
    \/ \E t \in Turns : TitleDo(t)
    \/ \E t \in Turns :
          TitleCompute(t, StubTitle(conv[t].msgs).val, StubTitle(conv[t].msgs).err)
    \/ \E t \in Turns, e \in StubErrors : TitleCompute(t, <<>>, e)
    \/ \E t \in Turns : TitleForget(t)
    \/ \E t \in Turns : TitleReturn(t)
    \/ \E t \in Turns, text \in ReplyTexts : ReplyDone(t, text, Nil)
    \/ \E t \in Turns : Finish(t, TRUE)
    \/ \E t \in Turns : Recycle(t)

SpecCache == InitCache /\ [][NextCache]_vars

\* ------------------------------------------- deadlines and cancellation
\* RPC calls in time: the clock advances in steps of ClockStep ms, at most
\* MaxTicks times, and only while every call in progress waits for a
\* collaborator whose context is still live; every other step takes no time
ClockStep == 5000
MaxTicks == 7

Canceled == "context canceled"
DeadlineExceeded == "context deadline exceeded"
CtxErrors == {Canceled, DeadlineExceeded}

\* time.Until(dl) of ctxReq when the budget is computed: the request timeout
\* when the caller's context has no earlier deadline, else what the caller
\* has left
CallerRemainings == {RequestTimeout, ClockStep + SafetyMargin}
TimedMessages == { <<"a">> }
TimedTitles == { <<"T">> }

\* the deadline of ctxReq, and so of gctx
ReqDeadline(t) == tstart[t] + tbudget[t].remaining
\* the deadline of tctx: context.WithTimeout(gctx, titleBudget)
TitleDeadline(t) ==
    IF tstart[t] + tbudget[t].budget < ReqDeadline(t)
    THEN tstart[t] + tbudget[t].budget ELSE ReqDeadline(t)
\* gctx is cancelled when a goroutine of the group returned an error and
\* when the deadline has passed; tctx also when its own deadline has passed
GroupCancelled(t) == gerr[t] # Nil \/ now >= ReqDeadline(t)
TitleCancelled(t) == GroupCancelled(t) \/ now >= TitleDeadline(t)
\* tctx.Err(): the first cancellation sticks: Canceled when the group
\* cancelled gctx before the deadline of tctx, else DeadlineExceeded
CtxError(t) ==
    IF gerr[t] # Nil /\ tfail[t] < TitleDeadline(t) THEN Canceled ELSE DeadlineExceeded

\* assist.Title returns inside the owner's singleflight call: it was called
\* with the owner's tctx. It returns a title or an error of its own; once
\* the context is cancelled it returns at once, with the context's error
\* or with the answer that was ready at that moment
TitleModelReturns(t, raw, err) ==
    /\ ttask[t] = "computing"
    /\ \/ TitleCompute(t, raw, err)
       \/ TitleCancelled(t) /\ TitleCompute(t, <<>>, CtxError(t))

\* assist.Reply returns in the reply goroutine: it was called with gctx. It
\* returns a text; once the context is cancelled it returns at once, with
\* the context's error or with the text that was ready at that moment: the
\* goroutine and g.Wait look at the returned error only
ReplyModelReturns(t, text) ==
    /\ pc[t] = "forked"
    /\ rtask[t] = "running"
    /\ \/ ReplyDone(t, text, Nil)
       \/ now >= ReqDeadline(t) /\ ReplyDone(t, <<>>, DeadlineExceeded)

\* a call that waits: for a caller, for a collaborator whose context is
\* live, or for the singleflight call it shares
Waiting(t) ==
    \/ pc[t] \in {"idle", "done", "replying"}
    \/ /\ pc[t] = "forked"
       /\ \/ ttask[t] = "computing" /\ ~TitleCancelled(t)
          \/ ttask[t] = "sfwait" /\ callRes[attached[t]] = None
          \/ ttask[t] = "done"
       /\ \/ rtask[t] = "running" /\ now < ReqDeadline(t)
          \/ rtask[t] = "done"
       /\ ~(ttask[t] = "done" /\ rtask[t] = "done")

Tick ==
    /\ now < MaxTicks * ClockStep
    /\ \A t \in Turns : Waiting(t)
    /\ now' = now + ClockStep
    /\ UNCHANGED <<store, rtask, turnVars, titleVars, tstart, tfail, loopVars>>

NextTimed ==
    \/ \E t \in Turns, text \in TimedMessages : StartConversation(t, text, TRUE)
    \/ \E t \in Turns, remaining \in CallerRemainings : Fork(t, remaining)
    \/ \E t \in Turns : TitleLookup(t)
    \/ \E t \in Turns : TitleDo(t)
    \/ \E t \in Turns, raw \in TimedTitles : TitleModelReturns(t, raw, Nil)
    \/ \E t \in Turns, e \in StubErrors : TitleModelReturns(t, <<>>, e)
    \/ \E t \in Turns : TitleForget(t)
    \/ \E t \in Turns : TitleReturn(t)
    \/ \E t \in Turns, text \in ReplyTexts : ReplyModelReturns(t, text)
    \/ \E t \in Turns, e \in ReplyErrors : ReplyDone(t, <<>>, e)
    \/ \E t \in Turns, ok \in BOOLEAN : Finish(t, ok)
    \/ \E t \in Turns, text \in TimedMessages : ContinueConversation(t, OldConv, text, TRUE)
    \/ \E t \in Turns, text \in ReplyTexts, ok \in BOOLEAN : ContinueReply(t, text, Nil, ok)
    \/ \E t \in Turns, e \in ReplyErrors : ContinueReply(t, <<>>, e, TRUE)
    \/ Tick

SpecTimed == Init /\ [][NextTimed]_vars

\* ------------------------------------------------------------ specification
Next ==
    \/ \E t \in Turns, text \in UserMessages, ok \in BOOLEAN : StartConversation(t, text, ok)
    \/ \E t \in Turns : Fork(t, RequestTimeout)
    \/ \E t \in Turns : TitleLookup(t)
    \/ \E t \in Turns : TitleDo(t)
    \/ \E t \in Turns, raw \in RawTitles : TitleCompute(t, raw, Nil)
    \/ \E t \in Turns, e \in TitleErrors : TitleCompute(t, <<>>, e)
    \/ \E t \in Turns : TitleForget(t)
    \/ \E t \in Turns : TitleReturn(t)
    \/ \E t \in Turns, text \in ReplyTexts : ReplyDone(t, text, Nil)
    \/ \E t \in Turns, e \in ReplyErrors : ReplyDone(t, <<>>, e)
    \/ \E t \in Turns, ok \in BOOLEAN : Finish(t, ok)
    \/ \E t \in Turns, id \in RequestIds, text \in UserMessages, ok \in BOOLEAN :
          ContinueConversation(t, id, text, ok)
    \/ \E t \in Turns, text \in ReplyTexts, ok \in BOOLEAN : ContinueReply(t, text, Nil, ok)
    \/ \E t \in Turns, e \in ReplyErrors : ContinueReply(t, <<>>, e, TRUE)

Spec == Init /\ [][Next]_vars

TypeOK ==
    /\ \A t \in Turns : pc[t] \in {"idle", "created", "forked", "replying", "done"}
    /\ Len(titleLRU) <= lruSize

\* =========================================================================
\* Properties
\* =========================================================================
Done(t) == pc[t] = "done"
Succeeded(t) == Done(t) /\ resp[t].err = Nil
HasMsg(ms, id) == \E i \in 1..Len(ms) : ms[i].id = id
\* the turn's user message is in the persistence store
UserMsgStored(t) == \E id \in ConvIds : store[id] # None /\ HasMsg(store[id].msgs, <<t, "u">>)
AssistantMsgStored(t) == \E id \in ConvIds : store[id] # None /\ HasMsg(store[id].msgs, <<t, "a">>)
\* a Title or Reply call of the turn has started
GenerationStarted(t) == calls[t].title > 0 \/ calls[t].reply > 0
TitleReturned(t) == ttask[t] = "done" /\ tres[t] # None

\* C1: title requests of one key that overlap in time (one entered
\* generateTitle while the other was inside it) invoke Assistant.Title at
\* most once between them and return the same title or the same error.
C1_SingleComputation ==
    \A t \in Turns : \A u \in concWith[t] :
        (TitleReturned(t) /\ TitleReturned(u)) =>
            /\ calls[t].title + calls[u].title <= 1
            /\ tres[t] = tres[u]

\* the step in which turn t returns to its caller
Returns(t) == pc[t] # "done" /\ pc'[t] = "done"
\* the store holds the pre-turn messages, then the turn's user message, then
\* its assistant message
StoredTurn(t) ==
    LET m == store'[conv'[t].id].msgs
        n == Len(pre[t])
    IN  /\ Len(m) = n + 2
        /\ SubSeq(m, 1, n) = pre[t]
        /\ m[n + 1].id = <<t, "u">> /\ m[n + 1].role = "user"
        /\ m[n + 2] = AssistantMsg(t, resp'[t].out.reply)

\* C2 as stated: when a turn returns success, the stored messages are the
\* pre-turn sequence followed by its user message and its assistant message.
C2_StoredAfterSuccess ==
    [][\A t \in Turns : (Returns(t) /\ resp'[t].err = Nil) => StoredTurn(t)]_vars

\* C2 amended: the same for a successful turn whose final UpdateConversation
\* succeeded.
C2_StoredAfterWrittenSuccess ==
    [][\A t \in Turns : (Returns(t) /\ resp'[t].err = Nil /\ updOK'[t]) => StoredTurn(t)]_vars

C2_Witness ==
    \E t \in Turns :
        /\ Succeeded(t) /\ updOK[t] /\ Len(pre[t]) > 0
        /\ store[conv[t].id].msgs = pre[t] \o SubSeq(conv[t].msgs, Len(pre[t]) + 1, Len(pre[t]) + 2)

\* C3: a turn whose reply generation failed returns an error and no
\* response, has appended no assistant message and has issued no Update.
C3_ReplyFailureFailsTurn ==
    \A t \in Turns :
        gerr[t] # Nil =>
            /\ calls[t].update = 0
            /\ ~HasMsg(conv[t].msgs, <<t, "a">>)
            /\ ~AssistantMsgStored(t)
            /\ Done(t) => (resp[t].err # Nil /\ resp[t].out = None)

C3_Witness ==
    /\ \E t \in Turns : kind[t] = "start" /\ Done(t) /\ gerr[t] # Nil /\ ttask[t] = "done"
    /\ \E t \in Turns : kind[t] = "continue" /\ Done(t) /\ gerr[t] # Nil

\* generateTitle returned an error or a title that is empty after trimming
TitleFailedOrEmpty(t) == TitleReturned(t) /\ (tres[t].err # Nil \/ TrimSpace(tres[t].val) = <<>>)

\* C4: a first turn whose title generation failed or came back empty while
\* its reply succeeded returns success with the reply and the default title.
C4_TitleFailureNonFatal ==
    \A t \in Turns :
        (Done(t) /\ kind[t] = "start" /\ TitleFailedOrEmpty(t) /\ rtask[t] = "done" /\ gerr[t] = Nil) =>
            /\ resp[t].err = Nil
            /\ resp[t].out.reply = reply[t]
            /\ resp[t].out.title = DefaultTitle
            /\ conv[t].title = DefaultTitle

C4_Witness ==
    /\ \E t \in Turns : Succeeded(t) /\ TitleFailedOrEmpty(t) /\ tres[t].err # Nil
    /\ \E t \in Turns : Succeeded(t) /\ TitleFailedOrEmpty(t) /\ tres[t].err = Nil
                            /\ tres[t].val # <<>>

\* C5 as stated: in every turn the user message is in the store once a Title
\* or Reply call has started.
C5_StoredBeforeGeneration ==
    \A t \in Turns : GenerationStarted(t) => UserMsgStored(t)

\* C5 amended: in a first turn the user message is in the store once a Title
\* or Reply call has started, and a failed Create leaves the turn without any
\* generation call; a continuation's user message is stored only by its
\* final Update.
C5_FirstMessageStoredBeforeGeneration ==
    \A t \in Turns :
        /\ (kind[t] = "start" /\ GenerationStarted(t)) => (UserMsgStored(t) /\ calls[t].create = 1)
        /\ (kind[t] = "start" /\ calls[t].create = 1 /\ ~UserMsgStored(t)) => ~GenerationStarted(t)
        /\ (kind[t] = "continue" /\ UserMsgStored(t)) => updOK[t]

C5_Witness ==
    /\ \E t \in Turns : kind[t] = "start" /\ Done(t) /\ gerr[t] # Nil /\ UserMsgStored(t)
    /\ \E t \in Turns : kind[t] = "start" /\ Done(t) /\ calls[t].create = 1 /\ ~UserMsgStored(t)

\* number of model responses with tool calls in the history
ToolRounds == Cardinality({k \in 1..Len(lmsgs) : lmsgs[k].kind = "toolcalls"})

\* C6: Reply never calls the model more than 15 times; when 15 responses
\* with tool calls have all been dispatched it has failed with "too many
\* tool calls", after exactly 15 model calls.
C6_BoundExceeded ==
    /\ lmodel <= MaxRounds
    /\ (ToolRounds = MaxRounds /\ lpending = <<>>) =>
            (lpc = "Failed" /\ lres.err = TooManyToolCalls /\ lmodel = MaxRounds)
    /\ lres.err = TooManyToolCalls => (lmodel = MaxRounds /\ ToolRounds = MaxRounds)

C6_Witness == lpc = "Failed" /\ lres.err = TooManyToolCalls /\ lmodel = 15

HasUnknown(cs) == \E k \in 1..Len(cs) : cs[k].name \notin {"get_weather", "get_today_date", "get_holidays"}

\* C7: once a response with a tool call of an unknown name is in the history,
\* it is the last response: the model is not called again, the loop is
\* dispatching the calls before the unknown one or has failed with an error.
C7_UnknownToolFails ==
    \A k \in 1..Len(lmsgs) :
        (lmsgs[k].kind = "toolcalls" /\ HasUnknown(lmsgs[k].calls)) =>
            /\ \A j \in (k + 1)..Len(lmsgs) : lmsgs[j].kind = "tool"
            /\ lmodel = ToolRounds
            /\ lpc \in {"DispatchingTools", "Failed"}
            /\ lpc = "Failed" => (lres.err = UnknownTool /\ lres.text = <<>>)
            /\ lpc = "DispatchingTools" => lpending # <<>>

C7_Witness ==
    /\ lpc = "Failed" /\ lres.err = UnknownTool
    /\ lmsgs[Len(lmsgs)].kind = "tool"
    /\ lmodel = 1

\* C8: a title request whose lookup comes after a computation of its key
\* succeeded with a non-empty title, the key never evicted, returns the title
\* last computed for the key and does not invoke Assistant.Title.
C8_CachedTitleReused ==
    \A t \in Turns :
        seenAtLookup[t] # None =>
            /\ calls[t].title = 0
            /\ ttask[t] = "done"
            /\ tres[t] = [val |-> seenAtLookup[t].val, err |-> Nil]

C8_Witness ==
    \E t \in Turns : seenAtLookup[t] # None /\ Done(t) /\ resp[t].err = Nil
                        /\ resp[t].out.title = seenAtLookup[t].val

\* the step in which the computation owned by t returns
Computes(t) == ttask[t] = "computing" /\ ttask'[t] = "sfwait"
EmptyUncached(k) == [key |-> k, val |-> <<>>] \in lastTitle

\* C9: a computation whose result is empty after normalization leaves the
\* cache as it was; the next lookup of that key goes on to the computation,
\* and a computation that then returns a non-empty title caches and returns
\* the normalized title.
C9_EmptyTitleNotCached ==
    [][\A t \in Turns :
        /\ (Computes(t) /\ callRes'[t].err = Nil /\ TrimSpace(ReplaceNewlines(callRes'[t].val)) = <<>>)
              => titleLRU' = titleLRU
        /\ (ttask[t] = "lookup" /\ ttask'[t] # "lookup" /\ EmptyUncached(tkey[t]))
              => (ttask'[t] = "do" /\ tres'[t] = None)
        /\ (Computes(t) /\ EmptyUncached(tkey[t]) /\ callRes'[t].err = Nil
              /\ TrimSpace(ReplaceNewlines(callRes'[t].val)) # <<>>)
              => /\ LRUHas(titleLRU', tkey[t])
                 /\ LRUVal(titleLRU', tkey[t]) = callRes'[t].val
                 /\ TrimSpace(callRes'[t].val) = callRes'[t].val
    ]_vars

C9_Witness ==
    \E t \in Turns, u \in Turns :
        /\ t # u /\ tkey[t] = tkey[u]
        /\ callRes[t] # None /\ callRes[t].err = Nil /\ TrimSpace(callRes[t].val) = <<>>
        /\ callRes[u] # None /\ callRes[u].err = Nil /\ TrimSpace(callRes[u].val) # <<>>
        /\ LRUHas(titleLRU, tkey[u]) /\ LRUVal(titleLRU, tkey[u]) = callRes[u].val
        /\ TitleReturned(u) /\ tres[u].val = callRes[u].val

\* C10: a failed computation leaves the cache as it was, and every caller
\* that shares it returns its error and no title.
C10_TitleErrorShared ==
    [][\A t \in Turns :
        /\ (Computes(t) /\ callRes'[t].err # Nil) => titleLRU' = titleLRU
        /\ (ttask[t] = "sfwait" /\ ttask'[t] = "done" /\ callRes[attached[t]].err # Nil)
              => tres'[t] = [val |-> <<>>, err |-> callRes[attached[t]].err]
    ]_vars

C10_Witness ==
    \E t \in Turns, u \in Turns :
        /\ t # u /\ attached[u] = t /\ attached[t] = t
        /\ TitleReturned(t) /\ TitleReturned(u)
        /\ tres[t].err # Nil /\ tres[u] = tres[t]
        /\ ~LRUHas(titleLRU, tkey[t])

\* the step that dispatches the first pending tool call
Dispatches == lpc = "DispatchingTools" /\ lpending # <<>> /\ lpending' = Tail(lpending)
\* texts of the tool results that report a failure
FailureTexts ==
    { "failed to parse weather request arguments", "Weather service is not configured",
      "Failed to get weather information", "failed to load holiday events",
      "failed to parse tool call arguments" }
\* the loop goes on after the dispatched call: to the next call of the
\* response, else to the next model round, else (after round 15) to the bound
LoopGoesOn ==
    IF Tail(lpending) # <<>> THEN lpc' = "DispatchingTools" /\ lres' = lres /\ li' = li
    ELSE IF li + 1 < MaxRounds THEN lpc' = "AwaitingModel" /\ lres' = lres /\ li' = li + 1
    ELSE lpc' = "Failed" /\ lres'.err = TooManyToolCalls

\* C11: a tool call with malformed arguments, a get_weather call without a
\* weather service and a failing capability call each append one tool-result
\* message with the failure text for that call, and the loop goes on; the
\* error Reply returns is never one of these failures.
C11_RecoverableToolFailures ==
    [][(lpc = "DispatchingTools" /\ lpending # <<>> /\ Head(lpending).name \in KnownTools) =>
         LET call == Head(lpending)
             m == lmsgs'[Len(lmsgs')]
         IN  /\ Dispatches
             /\ Len(lmsgs') = Len(lmsgs) + 1 /\ SubSeq(lmsgs', 1, Len(lmsgs)) = lmsgs
             /\ m.kind = "tool" /\ m.id = call.id
             /\ LoopGoesOn
             /\ (call.name = "get_weather" /\ ~call.args.ok)
                    => m.text = "failed to parse weather request arguments"
             /\ (call.name = "get_weather" /\ call.args.ok /\ ~lweather)
                    => m.text = "Weather service is not configured"
             /\ (call.name = "get_weather" /\ call.args.ok /\ lweather)
                    => m.text \in {"Failed to get weather information", "forecast", "current weather"}
             /\ (call.name = "get_holidays" /\ ~call.args.ok)
                    => m.text \in {"failed to load holiday events", "failed to parse tool call arguments"}
             /\ (call.name = "get_holidays" /\ call.args.ok)
                    => m.text \in {"failed to load holiday events", "holidays"}
             /\ lres'.err \notin FailureTexts
    ]_vars

C11_Witness ==
    /\ lpc = "Done" /\ lres.err = Nil /\ lmodel = 2
    /\ \E k \in 1..Len(lmsgs) : lmsgs[k].kind = "tool" /\ lmsgs[k].text = "Weather service is not configured"
    /\ \E k \in 1..Len(lmsgs) : lmsgs[k].kind = "tool" /\ lmsgs[k].text = "failed to load holiday events"

\* the turn's final UpdateConversation was attempted and failed
FinalWriteFailed(t) == Done(t) /\ calls[t].update = 1 /\ ~updOK[t]

\* C12 as stated: every turn whose final write failed returns success with
\* the reply already computed.
C12_FinalWriteFailureNonFatal ==
    \A t \in Turns :
        FinalWriteFailed(t) => (resp[t].err = Nil /\ resp[t].out.reply = reply[t])

\* C12 amended: a first turn whose final write failed returns success with
\* the computed reply and title; a continuation whose final write failed
\* returns an error and no reply.  In both the store keeps what it held.
C12_FirstTurnFinalWriteNonFatal ==
    \A t \in Turns :
        FinalWriteFailed(t) =>
            /\ ~AssistantMsgStored(t)
            /\ kind[t] = "start" =>
                  /\ resp[t].err = Nil
                  /\ resp[t].out.reply = reply[t]
                  /\ resp[t].out.title = (IF title[t] # <<>> THEN title[t] ELSE DefaultTitle)
                  /\ resp[t].out.id = conv[t].id
            /\ kind[t] = "continue" => (resp[t].err # Nil /\ resp[t].out = None)

C12_Witness ==
    /\ \E t \in Turns : kind[t] = "start" /\ FinalWriteFailed(t) /\ Succeeded(t)
                           /\ title[t] # <<>> /\ resp[t].out.title = title[t]
    /\ \E t \in Turns : kind[t] = "continue" /\ FinalWriteFailed(t) /\ resp[t].err # Nil

\* the reply task of first turn t failed
ReplyFailed(t) == kind[t] = "start" /\ gerr[t] # Nil

\* C13 as stated: the title cache holds no entry added by a turn whose reply
\* task failed.
C13_NoEntryOfFailedTurn ==
    \A e \in cachedBy : ~(Done(e.by) /\ ReplyFailed(e.by))

\* C13 amended: the cache is committed by the title computation, whatever
\* the outcome of the turn (a successful computation of a non-empty title
\* adds the entry even when the turn's reply task has failed); the failed
\* turn returns an error, uses the title nowhere else and leaves the cache
\* and the store as they are.
C13_TitleDiscardedCacheKept ==
    [][\A t \in Turns :
        /\ (Computes(t) /\ callRes'[t].err = Nil /\ TrimSpace(ReplaceNewlines(callRes'[t].val)) # <<>>)
              => /\ LRUHas(titleLRU', tkey[t])
                 /\ LRUVal(titleLRU', tkey[t]) = callRes'[t].val
                 /\ [key |-> tkey[t], by |-> t] \in cachedBy'
        /\ (Returns(t) /\ ReplyFailed(t))
              => /\ resp'[t].err # Nil /\ resp'[t].out = None
                 /\ titleLRU' = titleLRU /\ cachedBy' = cachedBy
                 /\ store' = store
                 /\ store[conv[t].id].title = DefaultTitle
    ]_vars

C13_Witness ==
    \E t \in Turns :
        /\ Done(t) /\ ReplyFailed(t) /\ title[t] # <<>>
        /\ [key |-> tkey[t], by |-> t] \in cachedBy
        /\ LRUHas(titleLRU, tkey[t]) /\ LRUVal(titleLRU, tkey[t]) = title[t]
        /\ store[conv[t].id].title = DefaultTitle

TitleInFlight(t) == ttask[t] \in {"lookup", "do", "computing", "sfwait"}
\* the response a first turn gives for what its two tasks returned
ResultOf(t) ==
    [id |-> conv[t].id,
     title |-> IF TitleOf(<<>>, tres[t]) # <<>> THEN TitleOf(<<>>, tres[t]) ELSE DefaultTitle,
     reply |-> reply[t]]

\* C14: in a first turn the title task and the reply task are started
\* together and both are in flight until one of them returns; the turn goes
\* on only when both have returned, and its response is determined by what
\* the two tasks returned, not by the order in which they returned.
C14_TitleAndReplyConcurrent ==
    \A t \in Turns :
        kind[t] = "start" =>
            /\ (ttask[t] # "none") <=> (rtask[t] # "none")
            /\ (pc[t] = "forked" /\ order[t] = <<>>) => (TitleInFlight(t) /\ rtask[t] = "running")
            /\ (Done(t) /\ rtask[t] # "none")
                  => order[t] \in {<<"title", "reply">>, <<"reply", "title">>}
            /\ (Succeeded(t) /\ rtask[t] # "none") => resp[t].out = ResultOf(t)

C14_Witness ==
    \E t \in Turns, u \in Turns :
        /\ Succeeded(t) /\ Succeeded(u)
        /\ order[t] = <<"title", "reply">> /\ order[u] = <<"reply", "title">>
        /\ tres[t] = tres[u] /\ tres[t].err = Nil /\ TrimSpace(tres[t].val) # <<>>
        /\ calls[t].title = 1 /\ calls[u].title = 1
        /\ resp[t].out.title = resp[u].out.title /\ resp[t].out.reply = resp[u].out.reply

\* the valid events of a feed that lie within the bounds of the arguments
InRange(ev, p) ==
    /\ ev.valid
    /\ p.before = 0 \/ ev.date <= p.before
    /\ p.after = 0 \/ ev.date >= p.after
Selected(feed, p) ==
    LET m == SelectSeq(feed, LAMBDA ev : InRange(ev, p))
        cut == IF p.max > 0 /\ Len(m) > p.max THEN SubSeq(m, 1, p.max) ELSE m
    IN  [k \in 1..Len(cut) |-> [date |-> cut[k].date, name |-> cut[k].name]]

\* C15: the result of a get_holidays call whose feed was loaded and whose
\* arguments were parsed lists exactly the events of the feed that are not
\* after before_date and not before after_date (each when given), in feed
\* order, cut off after max_count events when max_count > 0, one line per
\* event.
C15_HolidaysFiltered ==
    \A k \in 2..Len(lmsgs) :
        (lmsgs[k].kind = "tool" /\ lmsgs[k - 1].kind = "toolcalls"
            /\ lmsgs[k - 1].calls[1].name = "get_holidays") =>
            /\ lmsgs[k].text \in {"holidays", "failed to load holiday events",
                                  "failed to parse tool call arguments"}
            /\ lmsgs[k].text = "holidays" =>
                  /\ lmsgs[k - 1].calls[1].args.ok
                  /\ lmsgs[k].lines = Selected(lfeed, lmsgs[k - 1].calls[1].args)

\* events on days 1, 3 and 5 with after_date = day 2 and max_count = 1
C15_Witness ==
    /\ Len(lfeed) = 3 /\ \A k \in 1..3 : lfeed[k].valid /\ lfeed[k].date = 2 * k - 1
    /\ lpc = "Done"
    /\ \E k \in 2..Len(lmsgs) :
          /\ lmsgs[k].kind = "tool" /\ lmsgs[k].text = "holidays"
          /\ lmsgs[k - 1].calls[1].args = [NoArgs EXCEPT !.after = 2, !.max = 1]
          /\ lmsgs[k].lines = << [date |-> 3, name |-> <<"day", 3>>] >>

Min(a, b) == IF a < b THEN a ELSE b

\* C16: the title sub-deadline is min(15 s, remaining - 500 ms), and 500 ms
\* when remaining - 500 ms is zero or negative; it is 15 s when
\* remaining - 500 ms is at least 15 s.
C16_TitleBudget ==
    \A t \in Turns :
        tbudget[t] # None =>
            LET rem == tbudget[t].remaining - 500
                b == tbudget[t].budget
            IN  /\ rem <= 0 => b = 500
                /\ rem > 0 => b = Min(15000, rem)
                /\ rem >= 15000 => b = 15000

C16_Witness ==
    \E t \in Turns, u \in Turns :
        /\ tbudget[t] # None /\ tbudget[t].remaining = 500 /\ tbudget[t].budget = 500
        /\ tbudget[u] # None /\ tbudget[u].remaining = 15250 /\ tbudget[u].budget = 14750

\* the number of Create and Update calls made by all turns
Writes(c) == [t \in Turns |-> c[t].create + c[t].update]

\* C17: a first turn that passes validation calls Create exactly once, a
\* continuation never; a turn calls Update at most once, as its last step
\* and only after its reply succeeded; the store changes in no step other
\* than such a call.
C17_WritesPerTurn ==
    [][/\ \A t \in Turns :
            /\ (kind'[t] = "start" /\ conv'[t].id # EmptyId) => calls'[t].create = 1
            /\ (kind'[t] # "start" \/ conv'[t].id = EmptyId) => calls'[t].create = 0
            /\ calls'[t].update <= 1
            /\ calls'[t].update = 1 =>
                  /\ pc'[t] = "done" /\ gerr'[t] = Nil /\ calls'[t].reply = 1
                  /\ HasMsg(conv'[t].msgs, <<t, "a">>)
            /\ calls'[t].update > calls[t].update => Returns(t)
       /\ store' # store =>
            \E t \in Turns :
                /\ Writes(calls')[t] = Writes(calls)[t] + 1
                /\ \A u \in Turns \ {t} : calls'[u] = calls[u]
                /\ \A id \in ConvIds \ {conv'[t].id} : store'[id] = store[id]
    ]_vars

C17_Witness ==
    /\ \E t \in Turns : kind[t] = "start" /\ Succeeded(t) /\ updOK[t]
                           /\ calls[t].create = 1 /\ calls[t].update = 1
    /\ \E t \in Turns : kind[t] = "continue" /\ Succeeded(t) /\ updOK[t]
                           /\ calls[t].create = 0 /\ calls[t].update = 1

\* the message is empty or consists of white space only
Blank(m) == \A i \in 1..Len(m) : m[i] \in {" ", "\n", "\t", "\r"}
Invalid(t) ==
    /\ req[t] # None
    /\ Blank(req[t].message) \/ (kind[t] = "continue" /\ req[t].id = EmptyId)

\* C18: a request with an empty or white-space-only message, and a
\* continuation with an empty conversation id, returns an error and no
\* response without any Create, Describe, Update, Title or Reply call.
C18_RejectedBeforeSideEffects ==
    \A t \in Turns :
        Invalid(t) =>
            /\ Done(t) /\ resp[t].err # Nil /\ resp[t].out = None
            /\ calls[t] = NoCalls
            /\ conv[t] = NoConv
            /\ ttask[t] = "none" /\ rtask[t] = "none"
            /\ ~UserMsgStored(t)

C18_Witness ==
    /\ \E t \in Turns : kind[t] = "start" /\ Invalid(t) /\ Done(t)
    /\ \E t \in Turns : kind[t] = "continue" /\ Invalid(t) /\ Done(t)
                           /\ req[t].id = EmptyId /\ ~Blank(req[t].message)

\* generateTitle gave the turn a title that is not empty
TitleObtained(t) == TitleReturned(t) /\ tres[t].err = Nil /\ ~Blank(tres[t].val)

\* C19: after a successful first turn the conversation's title is the
\* obtained title when a non-empty title was obtained and the default title
\* otherwise; the response carries the conversation's title and, as reply,
\* the content of the assistant message appended last; a final write that
\* succeeded stored that conversation.
C19_ResponseMatchesConversation ==
    \A t \in Turns :
        (kind[t] = "start" /\ Succeeded(t)) =>
            LET last == conv[t].msgs[Len(conv[t].msgs)]
            IN  /\ TitleObtained(t) => (conv[t].title = TrimSpace(tres[t].val) /\ conv[t].title # DefaultTitle)
                /\ ~TitleObtained(t) => conv[t].title = DefaultTitle
                /\ resp[t].out.title = conv[t].title
                /\ Len(conv[t].msgs) = 2
                /\ last.role = "assistant" /\ last.id = <<t, "a">>
                /\ resp[t].out.reply = last.content /\ last.content = reply[t]
                /\ updOK[t] /\ store[conv[t].id].msgs = conv[t].msgs => store[conv[t].id].title = conv[t].title

C19_Witness ==
    /\ \E t \in Turns : kind[t] = "start" /\ Succeeded(t) /\ updOK[t] /\ calls[t].title = 1
                           /\ tres[t] = [val |-> <<"T">>, err |-> Nil]
                           /\ resp[t].out.title = <<"T">> /\ resp[t].out.reply = <<"R">>
                           /\ store[conv[t].id].title = <<"T">>
    /\ \E t \in Turns : kind[t] = "start" /\ Succeeded(t) /\ ~TitleObtained(t)
                           /\ resp[t].out.title = DefaultTitle

\* position of key k in the order of last use
UsePos(k) == CHOOSE i \in 1..Len(useOrder) : useOrder[i] = k

\* C20: the title cache never holds more entries than its size; an entry
\* leaves the cache only in a step that adds a new key to a full cache, and
\* it is the entry whose last use (lookup with a hit, or insertion) is the
\* oldest.
C20_StrictLRU ==
    [][LET gone == LRUKeys(titleLRU) \ LRUKeys(titleLRU')
           added == LRUKeys(titleLRU') \ LRUKeys(titleLRU)
       IN  /\ Len(titleLRU') <= lruSize
           /\ Cardinality(LRUKeys(titleLRU')) = Len(titleLRU')
           /\ gone # {} =>
                 /\ Cardinality(gone) = 1 /\ Cardinality(added) = 1
                 /\ Len(titleLRU) = lruSize /\ Len(titleLRU') = lruSize
                 /\ \A g \in gone : \A k \in LRUKeys(titleLRU) \ gone : UsePos(g) < UsePos(k)
    ]_vars

\* the cache is full, a key evicted earlier has been added again, and
\* another evicted key was last used before every key in the cache
C20_Witness ==
    /\ Len(titleLRU) = 2 /\ lruSize = 2
    /\ Len(useOrder) >= 3
    /\ \E k \in evicted : k \in LRUKeys(titleLRU)
    /\ \E k \in evicted :
          /\ k \notin LRUKeys(titleLRU)
          /\ \A c \in LRUKeys(titleLRU) : UsePos(k) < UsePos(c)
    /\ titleLRU[1].key = useOrder[Len(useOrder)]
    /\ titleLRU[2].key = useOrder[Len(useOrder) - 1]

Quotes == {"\"", "'"}
\* a title as the cache is meant to hold it
Normalized(v) ==
    /\ v # <<>> /\ Len(v) <= 80
    /\ \A i \in 1..Len(v) : v[i] # "\n"
    /\ ~IsSpace(v[1]) /\ v[1] \notin Quotes
    /\ ~IsSpace(v[Len(v)]) /\ v[Len(v)] \notin Quotes

\* C21: every value in the title cache is not empty, at most 80 characters
\* long, without a newline and without white space or a quote at either end.
C21_CachedTitlesNormalized ==
    \A i \in 1..Len(titleLRU) : Normalized(titleLRU[i].val)

\* the get_weather call behind the tool-result message at position k
WeatherCallAt(k) ==
    /\ lmsgs[k].kind = "tool" /\ lmsgs[k - 1].kind = "toolcalls"
    /\ lmsgs[k - 1].calls[1].name = "get_weather"
    /\ lmsgs[k - 1].calls[1].args.ok /\ lweather

\* C22: a get_weather call whose forecast_days is absent or <= 0 makes the
\* current-conditions request only (no forecast request is sent); with
\* forecast_days > 0 the forecast request is made and the days it queries
\* lie in 1..14: the requested value when that is in range, else the
\* default 3; the call is never rejected because of the value.
C22_ForecastDaysClamped ==
    \A k \in 2..Len(lmsgs) :
        WeatherCallAt(k) =>
            LET a == lmsgs[k - 1].calls[1].args
                m == lmsgs[k]
            IN  /\ (~a.hasDays \/ a.days <= 0) =>
                      /\ m.n = 0
                      /\ m.text \in {"current weather", "Failed to get weather information"}
                /\ (a.hasDays /\ a.days > 0) =>
                      /\ m.text \in {"forecast", "Failed to get weather information"}
                      /\ m.n \in 1..14
                      /\ a.days \in 1..14 => m.n = a.days
                      /\ a.days > 14 => m.n = 3

\* a forecast for more than 14 days was asked for and 3 days were queried
C22_Witness ==
    /\ lpc = "Done"
    /\ \E k \in 2..Len(lmsgs) :
          /\ WeatherCallAt(k)
          /\ lmsgs[k - 1].calls[1].args.hasDays /\ lmsgs[k - 1].calls[1].args.days > 14
          /\ lmsgs[k].text = "forecast" /\ lmsgs[k].n = 3

\* the model call failed: an error or a response without choices
ModelCallFailed == lcall \in {"error", "nochoices"}

\* C23: when a model call returns an error or a response with zero choices,
\* Reply ends at once with an error and no text: no tool call of that round
\* is dispatched, no message is added to the history, no further model call
\* is made; the RPC call that ran this Reply then ends with an error, and
\* its assistant message is neither appended nor stored.
C23_ModelFailureFailsTurn ==
    /\ [](ModelCallFailed =>
            /\ lpc = "Failed" /\ lres.err \in {ModelFailure, NoChoices} /\ lres.text = <<>>
            /\ lpending = <<>> /\ lmodel = li + 1 /\ ToolRounds = li
            /\ Done(ReplyTurn) =>
                  /\ resp[ReplyTurn].err # Nil /\ resp[ReplyTurn].out = None
                  /\ ~HasMsg(conv[ReplyTurn].msgs, <<ReplyTurn, "a">>)
                  /\ ~AssistantMsgStored(ReplyTurn))
    /\ [][ModelCallFailed => UNCHANGED loopVars]_vars

\* a first turn whose Reply made a tool round, then got a response without
\* choices: the turn failed although its title was generated
C23_Witness ==
    /\ lcall = "nochoices" /\ li = 1
    /\ Done(ReplyTurn) /\ kind[ReplyTurn] = "start"
    /\ title[ReplyTurn] # <<>>
    /\ resp[ReplyTurn].err # Nil

\* position of the last tool-call message of the history (0: none)
LastToolCalls ==
    IF ToolRounds = 0 THEN 0
    ELSE CHOOSE k \in 1..Len(lmsgs) :
            /\ lmsgs[k].kind = "toolcalls"
            /\ \A j \in (k + 1)..Len(lmsgs) : lmsgs[j].kind # "toolcalls"

\* C24: a tool-call message whose n >= 1 calls all have known names is
\* followed in the history by one tool-result message per call, in the order
\* of the calls and each with the id of its call, whatever the outcome of
\* the call; once the round is over these are exactly n messages, so the
\* round added 1 + n entries; and no step of the loop changes or removes an
\* entry that is already in the history.
C24_HistoryGrowth ==
    /\ [](\A k \in 1..Len(lmsgs) :
            (lmsgs[k].kind = "toolcalls" /\ ~HasUnknown(lmsgs[k].calls)) =>
                LET cs == lmsgs[k].calls
                    n == Len(cs)
                    open == IF k = LastToolCalls THEN Len(lpending) ELSE 0
                IN  /\ n >= 1
                    /\ Len(lmsgs) >= k + n - open
                    /\ \A j \in 1..(n - open) :
                          lmsgs[k + j].kind = "tool" /\ lmsgs[k + j].id = cs[j].id
                    /\ open > 0 => (lpc = "DispatchingTools" /\ Len(lmsgs) = k + n - open)
                    /\ Len(lmsgs) > k + n - open => lmsgs[k + n + 1].kind = "toolcalls")
    /\ [][lpc # "Idle" =>
            /\ Len(lmsgs') >= Len(lmsgs)
            /\ SubSeq(lmsgs', 1, Len(lmsgs)) = lmsgs
            /\ (lpc = "DispatchingTools" /\ lpc' = "AwaitingModel") =>
                  Len(lmsgs') = LastToolCalls + Len(lmsgs[LastToolCalls].calls)]_vars

\* a round of two calls, the first failed and the second succeeded, after
\* which the model gave its answer
C24_Witness ==
    /\ lpc = "Done"
    /\ \E k \in 1..Len(lmsgs) :
          /\ lmsgs[k].kind = "toolcalls" /\ Len(lmsgs[k].calls) = 2
          /\ Len(lmsgs) = k + 2
          /\ lmsgs[k + 1].text \in FailureTexts /\ lmsgs[k + 1].id = lmsgs[k].calls[1].id
          /\ lmsgs[k + 2].text \notin FailureTexts /\ lmsgs[k + 2].id = lmsgs[k].calls[2].id

\* C25: from AwaitingModel the loop moves only to DispatchingTools, Done or
\* Failed, and from DispatchingTools only on to the next call, back to
\* AwaitingModel or to Failed; Done and Failed are never left and no model
\* call is made in them; at most 15 model calls are made; Done carries the
\* text of the first response without tool calls; and, every model call and
\* capability call returning, a loop that is in AwaitingModel reaches Done or
\* Failed.
C25_LoopTerminates ==
    /\ [][/\ lpc = "AwaitingModel" => lpc' \in {"DispatchingTools", "Done", "Failed"}
          /\ lpc = "DispatchingTools" => lpc' \in {"DispatchingTools", "AwaitingModel", "Failed"}
          /\ lpc \in {"Done", "Failed"} => UNCHANGED loopVars
          /\ lmodel' # lmodel => (lpc = "AwaitingModel" /\ lmodel' = lmodel + 1)]_vars
    /\ [](lmodel <= MaxRounds)
    /\ [](lpc = "Done" => (lcall = "final" /\ lres.err = Nil /\ lmodel = ToolRounds + 1))
    /\ (lpc = "AwaitingModel") ~> (lpc \in {"Done", "Failed"})

\* the fifteenth model call gave the answer
C25_Witness == lpc = "Done" /\ lmodel = MaxRounds /\ ToolRounds = MaxRounds - 1

\* the step is made by the title task, by the reply task of turn t
TitleTaskStep(t) == ttask[t] \in {"lookup", "sfwait"} /\ ttask'[t] = "done"
ReplyTaskStep(t) == rtask[t] = "running" /\ rtask'[t] = "done"

\* C28: a first turn that started its two tasks returns, with a response or
\* with an error, only in a step taken when both tasks have ended; the
\* variable title is written only by the title task as it ends and the
\* variable reply only by the reply task as it ends; the coordinator merges
\* them into the conversation only after both tasks have ended, and neither
\* variable changes afterwards.
C28_JoinBeforeReturn ==
    [][\A t \in Turns :
          (kind[t] = "start" /\ kind'[t] = "start") =>
              /\ (pc[t] = "forked" /\ pc'[t] = "done") =>
                    (ttask[t] = "done" /\ rtask[t] = "done")
              /\ title'[t] # title[t] => (pc[t] = "forked" /\ TitleTaskStep(t))
              /\ reply'[t] # reply[t] => (pc[t] = "forked" /\ ReplyTaskStep(t))
              /\ conv'[t] # conv[t] =>
                    (ttask[t] = "done" /\ rtask[t] = "done"
                        /\ title'[t] = title[t] /\ reply'[t] = reply[t]
                        /\ conv'[t] = Merged(conv[t], t, title[t], reply[t]))
              /\ (ttask[t] = "done" /\ rtask[t] = "done") =>
                    (title'[t] = title[t] /\ reply'[t] = reply[t])]_vars

\* a first turn whose reply task failed returned its error after the title
\* task, which ended last with a title
C28_Witness ==
    \E t \in Turns :
        /\ kind[t] = "start" /\ Done(t) /\ resp[t].err # Nil
        /\ order[t] = <<"reply", "title">>
        /\ title[t] # <<>> /\ gerr[t] # Nil

\* C26: while the title task of a first turn has not ended, the time is not
\* past the turn's title sub-deadline (and so not past the deadline of the
\* request context), also when the task waits for the singleflight call of
\* another turn.
C26_TitleEndsBySubDeadline ==
    \A t \in Turns :
        (kind[t] = "start" /\ pc[t] = "forked" /\ ttask[t] # "done") =>
            now <= TitleDeadline(t)

\* the deadline D of a turn: that of its request context; a continuation
\* sets none up, D is then the request timeout from the start of the call
TurnDeadline(t) ==
    IF kind[t] = "start" THEN ReqDeadline(t) ELSE tstart[t] + RequestTimeout
\* the reply of turn t is obtained in this step
ReplyObtained(t) ==
    \/ kind[t] = "start" /\ ReplyTaskStep(t) /\ gerr'[t] = Nil
    \/ pc[t] = "replying" /\ pc'[t] = "done" /\ gerr'[t] = Nil

\* C27: in a first turn and in a continuation, no reply is obtained (and so
\* no assistant message appended) once the deadline D of the turn has
\* passed: the turn can only fail; and a first turn whose title request
\* alone ended with the context's deadline error is not failed by it.
C27_DeadlineFailsTurn ==
    /\ [][\A t \in Turns : ReplyObtained(t) => now <= TurnDeadline(t)]_vars
    /\ [](\A t \in Turns :
            (Done(t) /\ kind[t] = "start" /\ tres[t] # None /\ tres[t].err = DeadlineExceeded
                /\ gerr[t] = Nil) => resp[t].err = Nil)

\* C29: the title request of a turn that shares the singleflight call of
\* another turn ends with a context error only if the turn's own title
\* context is cancelled at that time.
C29_CancellationIsolated ==
    [][\A b \in Turns :
          (ttask[b] = "sfwait" /\ ttask'[b] = "done" /\ attached[b] # b
              /\ tres'[b].err \in CtxErrors) => TitleCancelled(b)]_vars

====
